---- MODULE Spec2Model ----
(***************************************************************************)
(* Model of algopy: Taylor arithmetic on matrices (Mtc in algopy.py, UTPM  *)
(* in algopy/utp/utpm.py), the multi-index helpers of the interpolation    *)
(* code, and the computational graph (Function / CGraph) of algopy.py.     *)
(*                                                                         *)
(* Numbers: the code computes in 64-bit floats; the model computes in      *)
(* exact rationals <<n, d>> (d > 0, lowest terms), so "equal within        *)
(* numerical tolerance" becomes equality.  A coefficient tensor of shape   *)
(* (D,P,N,M) is a function [0..D-1 -> [0..P-1 -> matrix]], a matrix a      *)
(* sequence of rows.                                                       *)
(***************************************************************************)
EXTENDS Integers, Sequences, FiniteSets, TLC

VARIABLES
    miN, miD, miT, miPos, miPc,   \* multi-indices: inputs N, D, table T, positions
    miG,                          \* gamma: the arguments i, j and the returned value
    A, X, op, result,             \* Taylor kernels: operands, operation run, its result
    functionList,                 \* CGraph.functionList: the Function nodes, in insertion order
    functionCount,                \* CGraph.functionCount
    dependentFunctionList,        \* CGraph.dependentFunctionList (ids of the nodes)
    independentFunctionList,      \* CGraph.independentFunctionList (ids of the nodes)
    raised,                       \* the exception the last call ended with, or "none"
    sweeps,                       \* number of CGraph.reverse calls made so far
    call,                         \* what the last reverse or rejected constructor call did
    graphs,                       \* a session with several graphs: the CGraph objects made
    cgraph                        \* Function.cgraph: position in graphs of the active graph

miVars == <<miN, miD, miT, miPos, miPc, miG>>
algVars == <<A, X, op, result>>
tapeVars == <<functionList, functionCount, dependentFunctionList, independentFunctionList,
              raised, sweeps, call>>
graphVars == <<graphs, cgraph>>
vars == <<miVars, algVars, tapeVars, graphVars>>

MiIdle ==
    miN = 1 /\ miD = 0 /\ miT = <<>> /\ miPos = <<>> /\ miPc = "idle" /\ miG = <<>>
AlgIdle == A = <<>> /\ X = <<>> /\ op = "idle" /\ result = <<>>
TapeIdle ==
    /\ functionList = <<>> /\ functionCount = 0
    /\ dependentFunctionList = <<>> /\ independentFunctionList = <<>>
    /\ raised = "none" /\ sweeps = 0 /\ call = <<>>
GraphIdle == graphs = <<>> /\ cgraph = 0

-----------------------------------------------------------------------------
(* Bounds of the model *)

MaxN == 5
MaxDeg == 6
MaxGammaN == 3
MaxGammaD == 3
MaxD == 3
MaxP == 2

-----------------------------------------------------------------------------
(* Exact arithmetic standing for numpy's float arithmetic *)

Abs(n) == IF n < 0 THEN -n ELSE n

RECURSIVE GCD(_, _)
GCD(a, b) == IF b = 0 THEN a ELSE GCD(b, a % b)

RNorm(n, d) ==
    LET s == IF d < 0 THEN -1 ELSE 1
        g == GCD(Abs(n), Abs(d))
    IN  <<(s * n) \div g, (s * d) \div g>>

R(n) == <<n, 1>>
RAdd(a, b) ==
    IF a[1] = 0 THEN b
    ELSE IF b[1] = 0 THEN a
    ELSE LET g == GCD(a[2], b[2])
         IN  RNorm(a[1] * (b[2] \div g) + b[1] * (a[2] \div g), (a[2] \div g) * b[2])
RNeg(a) == <<-a[1], a[2]>>
RSub(a, b) == RAdd(a, RNeg(b))
RMul(a, b) ==
    IF a[1] = 0 \/ b[1] = 0 THEN <<0, 1>>
    ELSE LET g1 == GCD(Abs(a[1]), b[2])
             g2 == GCD(Abs(b[1]), a[2])
         IN  RNorm((a[1] \div g1) * (b[1] \div g2), (a[2] \div g2) * (b[2] \div g1))
RDiv(a, b) == RMul(a, RNorm(b[2], b[1]))

RECURSIVE RSum(_, _)
RSum(f, n) == IF n = 0 THEN R(0) ELSE RAdd(RSum(f, n - 1), f[n])

-----------------------------------------------------------------------------
(* Matrices: sequences of rows *)

Rows(m) == Len(m)
Cols(m) == Len(m[1])

\* the array holding f[1], ..., f[n], every entry computed once
RECURSIVE array(_, _)
array(f, n) == IF n = 0 THEN <<>> ELSE Append(array(f, n - 1), f[n])

\* numpy broadcasting of two 2-D arrays: an axis of length 1 is stretched to the length
\* of the other operand's axis; other unequal lengths raise ValueError
Broadcastable(a, b) ==
    /\ Rows(a) = Rows(b) \/ Rows(a) = 1 \/ Rows(b) = 1
    /\ Cols(a) = Cols(b) \/ Cols(a) = 1 \/ Cols(b) = 1
BLen(m, n) == IF m = 1 THEN n ELSE m
BAt(a, i, j) == a[IF Rows(a) = 1 THEN 1 ELSE i][IF Cols(a) = 1 THEN 1 ELSE j]

\* (the operands are evaluated once, as x and y)
MMap2(F(_, _), a, b) ==
    CHOOSE c \in {array([i \in 1..BLen(Rows(x), Rows(y)) |->
                     array([j \in 1..BLen(Cols(x), Cols(y)) |-> F(BAt(x, i, j), BAt(y, i, j))],
                           BLen(Cols(x), Cols(y)))], BLen(Rows(y), Rows(x))) :
                   x \in {a}, y \in {b}} : TRUE
MAdd(a, b) == MMap2(RAdd, a, b)
MSub(a, b) == MMap2(RSub, a, b)
MMul(a, b) == MMap2(RMul, a, b)
MDiv(a, b) == MMap2(RDiv, a, b)
MNeg(a) ==
    array([i \in 1..Rows(a) |-> array([j \in 1..Cols(a) |-> RNeg(a[i][j])], Cols(a))],
          Rows(a))
MZeros(n, m) == [i \in 1..n |-> [j \in 1..m |-> R(0)]]
eye(n) == [i \in 1..n |-> [j \in 1..n |-> IF i = j THEN R(1) ELSE R(0)]]
IM(m) == [i \in 1..Len(m) |-> [j \in 1..Len(m[1]) |-> R(m[i][j])]]

numpy_dot(a, b) ==
    CHOOSE c \in {array([i \in 1..Rows(x) |-> array([j \in 1..Cols(y) |->
                     RSum([k \in 1..Cols(x) |-> RMul(x[i][k], y[k][j])], Cols(x))],
                     Cols(y))], Rows(x)) :
                   x \in {a}, y \in {b}} : TRUE

numpy_transpose(a) ==
    array([j \in 1..Cols(a) |-> array([i \in 1..Rows(a) |-> a[i][j]], Rows(a))], Cols(a))

-----------------------------------------------------------------------------
(* generate_multi_indices *)

SeqSum(s) == RSum([k \in 1..Len(s) |-> R(s[k])], Len(s))[1]

\* j[i] = v on a sequence
SetAt(s, i, v) == [k \in 1..Len(s) |-> IF k = i THEN v ELSE s[k]]

\* range(D - numpy.sum(j[:]), -1, -1) as a sequence
recRange_ascending(j, D) == [k \in 1..(D - SeqSum(j) + 1) |-> k - 1]
recRange_positive(j, D) == [k \in 1..(D - SeqSum(j)) |-> D - SeqSum(j) - k + 1]
recRange(j, D) == [k \in 1..(D - SeqSum(j) + 1) |-> D - SeqSum(j) - k + 1]

\* rec(r, n, N, D): the rows it appends to T, in order (n is 0-based)
RECURSIVE rec(_, _, _, _)
RECURSIVE recLoop(_, _, _, _, _, _)

recLoop(j, n, N, D, rng, k) ==
    IF k > Len(rng) THEN <<>>
    ELSE LET j2 == SetAt(j, n + 1, rng[k])
         IN  rec(j2, n + 1, N, D) \o recLoop(j2, n, N, D, rng, k + 1)

rec(r, n, N, D) ==
    IF n = N - 1
    THEN <<SetAt(r, N, D - SeqSum(r))>>
    ELSE recLoop(r, n, N, D, recRange(r, D), 1)

generate_multi_indices(N, D) == rec([n \in 1..N |-> 0], 0, N, D)

\* convert_multi_indices_to_pos: the while loop of one (m, n) emits n I[m,n] times
RECURSIVE expandRow(_, _)
expandRow(row, n) ==
    IF n = 0 THEN <<>>
    ELSE expandRow(row, n - 1) \o [k \in 1..row[n] |-> n - 1]

\* I = in_I without the copy: the while loops count the caller's array down to zero
convert_multi_indices_to_pos_in_place(in_I) ==
    LET D == SeqSum(in_I[1])
        retval == [m \in 1..Len(in_I) |->
                     LET e == expandRow(in_I[m], Len(in_I[m]))
                     IN  [i \in 1..D |-> IF i <= Len(e) THEN e[i] ELSE 0]]
    IN  [retval |-> retval, in_I |-> [m \in 1..Len(in_I) |-> [n \in 1..Len(in_I[m]) |-> 0]]]

\* the returned array (rows of D = sum(I[0,:]) positions) and the caller's in_I after the call
convert_multi_indices_to_pos(in_I) ==
    LET I == in_I
        D == SeqSum(I[1])
        retval == [m \in 1..Len(I) |->
                     LET e == expandRow(I[m], Len(I[m]))
                     IN  [i \in 1..D |-> IF i <= Len(e) THEN e[i] ELSE 0]]
    IN  [retval |-> retval, in_I |-> in_I]

\* z / d on integers: the quotient rounded down; numpy gives 0 for a zero divisor
FloorDiv(z, d) == IF d = 0 THEN 0 ELSE z \div d

\* z ** e on integers, 0 ** 0 = 1
RECURSIVE IPow(_, _)
IPow(z, e) == IF e = 0 THEN 1 ELSE z * IPow(z, e - 1)

\* numpy.prod([z - i for i in range(k)])
RECURSIVE FallingProd(_, _)
FallingProd(z, k) == IF k = 0 THEN 1 ELSE FallingProd(z, k - 1) * (z - (k - 1))

\* numpy.prod([i for i in range(1, k + 1)])
RECURSIVE Factorial(_)
Factorial(k) == IF k = 0 THEN 1 ELSE k * Factorial(k - 1)

\* binomial(z, k) of gamma: u / d
binomial(z, k) == FloorDiv(FallingProd(z, k), Factorial(k))

\* numpy.sum(abs(k)) of an integer sequence
SumAbs(k) == SeqSum([n \in 1..Len(k) |-> Abs(k[n])])

\* product of the entries of an integer sequence
RECURSIVE IProd(_, _)
IProd(f, n) == IF n = 0 THEN 1 ELSE IProd(f, n - 1) * f[n]

\* alpha(i, j, k) of gamma: i, j, k hold integers, so both quotients are
\* quotients of integers
gamma_alpha(i, j, k) ==
    LET N == Len(i)
        D == SeqSum(j)
        term1 == 1 - 2 * (SumAbs([n \in 1..N |-> i[n] - k[n]]) % 2)
        term2 == IProd([n \in 1..N |-> binomial(i[n], k[n])], N)
        term3 == IProd([n \in 1..N |-> binomial(FloorDiv(D * k[n], SumAbs(k)), j[n])], N)
        term4 == IPow(FloorDiv(SumAbs(k), D), SumAbs(i))
    IN  R(term1 * term2 * term3 * term4)

\* sum_recursion(in_k, n): what the calls below it add to retval[0] (n is 0-based)
RECURSIVE sum_recursion(_, _, _, _)
sum_recursion(i, j, in_k, n) ==
    IF n = Len(i) THEN gamma_alpha(i, j, in_k)
    ELSE RSum([a \in 1..(i[n + 1] + 1) |->
                 sum_recursion(i, j, SetAt(in_k, n + 1, a - 1), n + 1)], i[n + 1] + 1)

gamma(i, j) == sum_recursion(i, j, [n \in 1..Len(i) |-> 0], 0)

RECURSIVE Binom(_, _)
Binom(n, k) == IF k = 0 THEN 1 ELSE IF n = 0 THEN 0 ELSE Binom(n - 1, k - 1) + Binom(n - 1, k)

InitMI ==
    /\ miN \in 1..MaxN
    /\ miD \in 0..MaxDeg
    /\ miT = <<>>
    /\ miPos = <<>>
    /\ miG = <<>>
    /\ miPc = "input"
    /\ AlgIdle
    /\ TapeIdle
    /\ GraphIdle

Generate ==
    /\ miPc = "input"
    /\ miT' = generate_multi_indices(miN, miD)
    /\ miPc' = "generated"
    /\ UNCHANGED <<miN, miD, miPos, miG, algVars, tapeVars, graphVars>>

Convert ==
    /\ miPc = "generated"
    /\ LET r == convert_multi_indices_to_pos(miT)
       IN  /\ miPos' = r.retval
           /\ miT' = r.in_I
    /\ miPc' = "converted"
    /\ UNCHANGED <<miN, miD, miG, algVars, tapeVars, graphVars>>

\* gamma(i, j) on two integer multi-indices of length N, |j| = D and 1 <= |i| <= D
Gamma ==
    /\ miPc = "generated"
    /\ miN <= MaxGammaN
    /\ miD \in 1..MaxGammaD
    /\ \E e \in 1..miD :
          \E mi \in 1..Len(generate_multi_indices(miN, e)), mj \in 1..Len(miT) :
             LET i == generate_multi_indices(miN, e)[mi]
                 j == miT[mj]
             IN  miG' = [i |-> i, j |-> j, gamma |-> gamma(i, j)]
    /\ miPc' = "gamma"
    /\ UNCHANGED <<miN, miD, miT, miPos, algVars, tapeVars, graphVars>>

NextMI == Generate \/ Convert \/ Gamma

SpecMI == InitMI /\ [][NextMI]_vars

-----------------------------------------------------------------------------
(* Claims about generate_multi_indices *)

LexGreater(a, b) ==
    \E k \in 1..Len(a) : a[k] > b[k] /\ \A l \in 1..(k - 1) : a[l] = b[l]

\* C1: generate_multi_indices(N,D) returns exactly C(N+D-1, D) rows, each of N
\* non-negative integers summing to D, and no two rows are equal.
C1_CountRowsDistinct ==
    miPc # "input" =>
        /\ Len(miT) = Binom(miN + miD - 1, miD)
        /\ \A m \in 1..Len(miT) :
              /\ Len(miT[m]) = miN
              /\ \A n \in 1..miN : miT[m][n] \in Nat
              /\ SeqSum(miT[m]) = miD
        /\ Cardinality({miT[m] : m \in 1..Len(miT)}) = Len(miT)

C1_Witness == miPc = "generated" /\ miN = 3 /\ miD = 3 /\ Len(miT) = 10

\* C2: the rows are in strictly descending lexicographic order, and
\* generate_multi_indices(3,2) is (2,0,0),(1,1,0),(1,0,1),(0,2,0),(0,1,1),(0,0,2).
C2_LexDescending ==
    miPc # "input" =>
        /\ \A m \in 1..(Len(miT) - 1) : LexGreater(miT[m], miT[m + 1])
        /\ (miN = 3 /\ miD = 2) =>
              miT = << <<2,0,0>>, <<1,1,0>>, <<1,0,1>>, <<0,2,0>>, <<0,1,1>>, <<0,0,2>> >>

C2_Witness == miPc = "generated" /\ miN = 3 /\ miD = 2 /\ Len(miT) = 6 /\ miT[2] = <<1,1,0>>

-----------------------------------------------------------------------------
(* Dense linear algebra used at the base point (numpy.linalg), exact *)

Minor(m, i, j) ==
    [r \in 1..(Rows(m) - 1) |-> [c \in 1..(Rows(m) - 1) |->
        m[IF r < i THEN r ELSE r + 1][IF c < j THEN c ELSE c + 1]]]

RECURSIVE Det(_)
Det(m) ==
    IF Rows(m) = 0 THEN R(1)
    ELSE RSum([j \in 1..Rows(m) |->
                 RMul(IF j % 2 = 1 THEN m[1][j] ELSE RNeg(m[1][j]), Det(Minor(m, 1, j)))],
              Rows(m))

Invertible(m) == Rows(m) = Cols(m) /\ Det(m) # R(0)

linalg_inv(m) ==
    [i \in 1..Rows(m) |-> [j \in 1..Rows(m) |->
        RDiv(IF (i + j) % 2 = 0 THEN Det(Minor(m, j, i)) ELSE RNeg(Det(Minor(m, j, i))),
             Det(m))]]

linalg_solve(a, b) == numpy_dot(linalg_inv(a), b)

-----------------------------------------------------------------------------
(* Coefficient tensors (D,P,N,M) *)

TD(t) == Cardinality(DOMAIN t)
TP(t) == Cardinality(DOMAIN t[0])
Orders(t) == 0..(TD(t) - 1)
Dirs(t) == 0..(TP(t) - 1)

\* numpy.sum over a range of matrices, starting from z
RECURSIVE MSum(_, _, _, _)
MSum(f, lo, hi, z) == IF hi < lo THEN z ELSE MAdd(MSum(f, lo, hi - 1, z), f[hi])

\* the coefficient array holding f[0], ..., f[k], every entry computed once
RECURSIVE tensor(_, _)
tensor(f, k) == IF k < 0 THEN <<>> ELSE tensor(f, k - 1) @@ (k :> f[k])

Tensor(D, P, F(_, _)) ==
    tensor([d \in 0..(D - 1) |-> tensor([p \in 0..(P - 1) |-> F(d, p)], P - 1)], D - 1)

TZerosLike(t) == Tensor(TD(t), TP(t), LAMBDA d, p : MZeros(Rows(t[0][0]), Cols(t[0][0])))

-----------------------------------------------------------------------------
(* class Mtc (algopy.py) *)

Mtc_add(x, y) == Tensor(TD(y), TP(x), LAMBDA d, p : MAdd(x[d][p], y[d][p]))
Mtc_sub(x, y) == Tensor(TD(y), TP(x), LAMBDA d, p : MSub(x[d][p], y[d][p]))

\* retval.TC[d] = sum(self.TC[:d+1] * rhs.TC[d::-1], axis=0)
Mtc_mul(x, y) ==
    Tensor(TD(y), TP(x), LAMBDA d, p :
        MSum([c \in 0..d |-> MMul(x[c][p], y[d - c][p])], 0, d,
             MZeros(Rows(x[0][p]), Cols(x[0][p]))))

MRecip(a) ==
    array([i \in 1..Rows(a) |-> array([j \in 1..Cols(a) |-> RDiv(R(1), a[i][j])], Cols(a))],
          Rows(a))

\* retval.TC[d] = 1./rhs.TC[0] * (self.TC[d] - sum(retval.TC[:d] * rhs.TC[d:0:-1], axis=0))
Mtc_div_d_noquot(x, y, retval, d, p) ==
    MSub(x[d][p],
         MSum([c \in 0..(d - 1) |-> MMul(retval[c][p], y[d - c][p])], 0, d - 1,
              MZeros(Rows(x[0][p]), Cols(x[0][p]))))
Mtc_div_d(x, y, retval, d, p) ==
    MMul(MRecip(y[0][p]),
         MSub(x[d][p],
              MSum([c \in 0..(d - 1) |-> MMul(retval[c][p], y[d - c][p])], 0, d - 1,
                   MZeros(Rows(x[0][p]), Cols(x[0][p])))))

RECURSIVE Mtc_div_upto(_, _, _)
Mtc_div_upto(x, y, d) ==
    IF d < 0 THEN <<>>
    ELSE LET retval == Mtc_div_upto(x, y, d - 1)
         IN  retval @@ (d :> tensor([p \in Dirs(x) |->
                    Mtc_div_d(x, y, retval, d, p)], TP(y) - 1))

Mtc_div(x, y) == Mtc_div_upto(x, y, TD(x) - 1)

\* retval.TC[d,p] += numpy.dot(self.TC[c,p], rhs.TC[d-c,p]) for c in range(d+1)
Mtc_dot_dp(x, y, d, p) ==
    MSum([c \in 0..d |-> numpy_dot(x[c][p], y[d - c][p])], 0, d,
         MZeros(Rows(x[0][p]), Cols(y[0][p])))

Mtc_dot(x, y) == Tensor(TD(y), TP(x), LAMBDA d, p : Mtc_dot_dp(x, y, d, p))

\* Mtc.inv: the value of retval.TC[d,p] after c iterations of the loop of lines 212-214;
\* both statements are in the body of the loop over c
RECURSIVE Mtc_inv_c(_, _, _, _, _)
Mtc_inv_c(x, retval, d, p, c) ==
    IF c = 0 THEN MZeros(Rows(x[0][p]), Cols(x[0][p]))
    ELSE MNeg(numpy_dot(x[0][p],
                        MAdd(Mtc_inv_c(x, retval, d, p, c - 1),
                             numpy_dot(retval[c - 1][p], x[d - (c - 1)][p]))))

RECURSIVE Mtc_inv_upto(_, _)
Mtc_inv_upto(x, d) ==
    IF d = 0 THEN (0 :> tensor([p \in Dirs(x) |->
                    linalg_inv(x[0][p])], TP(x) - 1))
    ELSE LET retval == Mtc_inv_upto(x, d - 1)
         IN  retval @@ (d :> tensor([p \in Dirs(x) |->
                    Mtc_inv_c(x, retval, d, p, d)], TP(x) - 1))

Mtc_inv(x) == Mtc_inv_upto(x, TD(x) - 1)

Mtc_trace(x) ==
    Tensor(TD(x), TP(x), LAMBDA d, p :
        << <<RSum([i \in 1..Rows(x[d][p]) |-> x[d][p][i][i]], Rows(x[d][p]))>> >>)

Mtc_transpose(x) == Tensor(TD(x), TP(x), LAMBDA d, p : numpy_transpose(x[d][p]))

Mtc_set_zero(x) == TZerosLike(x)

-----------------------------------------------------------------------------
(* class UTPM and RawAlgorithmsMixIn (algopy/utp/utpm.py) *)

\* an operand is a UTPM instance (data: a coefficient tensor) or a plain array
UTPM(data) == [cls |-> "UTPM", data |-> data]
ndarray(m) == [cls |-> "ndarray", data |-> m]
isUTPM(v) == v.cls = "UTPM"
NotImplementedError == [cls |-> "NotImplementedError"]

\* UTPM.inv, lines 1099-1101: out.data[d,p] for d >= 1, given the lower orders
UTPM_inv_dp_reversed(a, out, d, p) ==
    numpy_dot(MSum([c \in 1..d |-> numpy_dot(a[c][p], out[d - c][p])], 1, d,
                   MZeros(Rows(a[0][p]), Cols(a[0][p]))),
              MNeg(out[0][p]))
UTPM_inv_dp(a, out, d, p) ==
    numpy_dot(MNeg(out[0][p]),
              MSum([c \in 1..d |-> numpy_dot(a[c][p], out[d - c][p])], 1, d,
                   MZeros(Rows(a[0][p]), Cols(a[0][p]))))

RECURSIVE UTPM_inv_upto(_, _)
UTPM_inv_upto(a, d) ==
    IF d = 0 THEN (0 :> tensor([p \in Dirs(a) |->
                    linalg_inv(a[0][p])], TP(a) - 1))
    ELSE LET out == UTPM_inv_upto(a, d - 1)
         IN  out @@ (d :> tensor([p \in Dirs(a) |->
                    UTPM_inv_dp(a, out, d, p)], TP(a) - 1))

UTPM_inv(v) == UTPM(UTPM_inv_upto(v.data, TD(v.data) - 1))

\* _dot: z_data[d,p] += numpy.dot(x_data[c,p], y_data[d-c,p]) for c in range(d+1)
dot_dp_mixed(x_data, y_data, d, p) ==
    MSum([c \in 0..d |-> numpy_dot(x_data[c][p], y_data[d - c][(p + 1) % TP(y_data)])], 0, d,
         MZeros(Rows(x_data[0][p]), Cols(y_data[0][p])))
dot_dp(x_data, y_data, d, p) ==
    MSum([c \in 0..d |-> numpy_dot(x_data[c][p], y_data[d - c][p])], 0, d,
         MZeros(Rows(x_data[0][p]), Cols(y_data[0][p])))

_dot(x_data, y_data) ==
    Tensor(TD(x_data), TP(x_data), LAMBDA d, p : dot_dp(x_data, y_data, d, p))

_dot_non_UTPM_y(x_data, y) ==
    Tensor(TD(x_data), TP(x_data), LAMBDA d, p : numpy_dot(x_data[d][p], y))

_dot_non_UTPM_x(x, y_data) ==
    Tensor(TD(y_data), TP(y_data), LAMBDA d, p : numpy_dot(x, y_data[d][p]))

UTPM_dot(x, y) ==
    IF isUTPM(x) /\ isUTPM(y) THEN UTPM(_dot(x.data, y.data))
    ELSE IF isUTPM(x) /\ ~isUTPM(y) THEN UTPM(_dot_non_UTPM_y(x.data, y.data))
    ELSE IF ~isUTPM(x) /\ isUTPM(y) THEN UTPM(_dot_non_UTPM_x(x.data, y.data))
    ELSE NotImplementedError

UTPM_transpose(v) == UTPM(Tensor(TD(v.data), TP(v.data), LAMBDA d, p : numpy_transpose(v.data[d][p])))

\* UTPM.__imul__ with a UTPM rhs, lines 915-919: self.data[d,p] after the first c
\* iterations of the inner loop.  d runs downwards, so self.data[c] (c < d) still
\* holds its old value s[c]; when rhs is self (alias), rhs.data[d] is the entry
\* being written.
RECURSIVE imul_c(_, _, _, _, _, _)
imul_c(s, y, alias, d, p, c) ==
    IF c = 0 THEN MMul(s[d][p], (IF alias THEN s ELSE y)[0][p])
    ELSE LET cur == imul_c(s, y, alias, d, p, c - 1)
             rhs == IF alias
                    THEN (IF d - (c - 1) = d THEN cur ELSE s[d - (c - 1)][p])
                    ELSE y[d - (c - 1)][p]
         IN  MAdd(cur, MMul(s[c - 1][p], rhs))

\* the loop over d run upwards: coefficient d reads the coefficients below it
\* after they were overwritten
RECURSIVE imul_ascending_upto(_, _, _)
imul_ascending_upto(s, y, d) ==
    IF d < 0 THEN [c \in {} |-> <<>>]
    ELSE LET prev == imul_ascending_upto(s, y, d - 1)
         IN  [c \in 0..d |->
                IF c < d THEN prev[c]
                ELSE tensor([p \in Dirs(s) |->
                        MSum([e \in 0..d |-> IF e = d THEN MMul(s[d][p], y[0][p])
                                              ELSE MMul(prev[e][p], y[d - e][p])], 0, d,
                             MZeros(Rows(s[0][p]), Cols(s[0][p])))], TP(s) - 1)]
UTPM_imul_ascending(self, rhs, alias) ==
    UTPM(tensor([d \in Orders(self.data) |->
                    imul_ascending_upto(self.data, rhs.data, TD(self.data) - 1)[d]],
                TD(self.data) - 1))

UTPM_imul(self, rhs, alias) ==
    UTPM(Tensor(TD(self.data), TP(self.data), LAMBDA d, p :
            imul_c(self.data, rhs.data, alias, d, p, d)))

\* UTPM.__mul__: retval = self.clone(); retval.__imul__(rhs)
UTPM_mul(self, rhs) == UTPM_imul(self, rhs, FALSE)

\* UTPM.__idiv__ with a UTPM rhs, line 929
idiv_d(self_data, rhs_data, retval, d, p) ==
    MMul(MRecip(rhs_data[0][p]),
         MSub(self_data[d][p],
              MSum([c \in 0..(d - 1) |-> MMul(retval[c][p], rhs_data[d - c][p])], 0, d - 1,
                   MZeros(Rows(self_data[0][p]), Cols(self_data[0][p])))))

RECURSIVE idiv_upto(_, _, _)
idiv_upto(self_data, rhs_data, d) ==
    IF d < 0 THEN <<>>
    ELSE LET retval == idiv_upto(self_data, rhs_data, d - 1)
         IN  retval @@ (d :> tensor([p \in Dirs(self_data) |->
                    idiv_d(self_data, rhs_data, retval, d, p)], TP(self_data) - 1))

UTPM_idiv(self, rhs) == UTPM(idiv_upto(self.data, rhs.data, TD(self.data) - 1))

\* UTPM.__div__: retval = self.clone(); retval.__idiv__(rhs)
UTPM_div(self, rhs) == UTPM_idiv(self, rhs)

\* _solve, lines 343-346: y_data[d,p] for d >= 1
_solve_dp_nobase(A_data, x_data, y_data, d, p) ==
    linalg_solve(A_data[0][p],
        MNeg(MSum([k \in 1..d |-> numpy_dot(A_data[k][p], y_data[d - k][p])], 1, d,
                  MZeros(Rows(x_data[0][p]), Cols(x_data[0][p])))))
_solve_dp(A_data, x_data, y_data, d, p) ==
    linalg_solve(A_data[0][p],
        MSub(x_data[d][p],
             MSum([k \in 1..d |-> numpy_dot(A_data[k][p], y_data[d - k][p])], 1, d,
                  MZeros(Rows(x_data[0][p]), Cols(x_data[0][p])))))

RECURSIVE _solve_upto(_, _, _)
_solve_upto(A_data, x_data, d) ==
    IF d = 0 THEN (0 :> tensor([p \in Dirs(A_data) |->
                    linalg_solve(A_data[0][p], x_data[0][p])], TP(A_data) - 1))
    ELSE LET y_data == _solve_upto(A_data, x_data, d - 1)
         IN  y_data @@ (d :> tensor([p \in Dirs(A_data) |->
                    _solve_dp(A_data, x_data, y_data, d, p)], TP(A_data) - 1))

_solve(A_data, x_data) == _solve_upto(A_data, x_data, TD(A_data) - 1)

\* _solve_non_UTPM_A, lines 381-384: A_data is a plain (N,N) array
_solve_non_UTPM_A_dp(A_data, x_data, y_data, d, p) ==
    linalg_solve(A_data,
        MSub(x_data[d][p],
             MSum([k \in 1..d |-> numpy_dot(A_data, y_data[d - k][p])], 1, d,
                  MZeros(Rows(x_data[0][p]), Cols(x_data[0][p])))))

RECURSIVE _solve_non_UTPM_A_upto(_, _, _)
_solve_non_UTPM_A_upto(A_data, x_data, d) ==
    IF d = 0 THEN (0 :> tensor([p \in Dirs(x_data) |->
                    linalg_solve(A_data, x_data[0][p])], TP(x_data) - 1))
    ELSE LET y_data == _solve_non_UTPM_A_upto(A_data, x_data, d - 1)
         IN  y_data @@ (d :> tensor([p \in Dirs(x_data) |->
                                _solve_non_UTPM_A_dp(A_data, x_data, y_data, d, p)], TP(x_data) - 1))

_solve_non_UTPM_A(A_data, x_data) == _solve_non_UTPM_A_upto(A_data, x_data, TD(x_data) - 1)

\* _solve_non_UTPM_x, lines 418-421: x_data is a plain (N,K) array; tmp starts at 0
_solve_non_UTPM_x_dp_withx(A_data, x_data, y_data, d, p) ==
    linalg_solve(A_data[0][p],
        MSub(x_data,
             MSum([k \in 1..d |-> numpy_dot(A_data[k][p], y_data[d - k][p])], 1, d,
                  MZeros(Rows(x_data), Cols(x_data)))))
_solve_non_UTPM_x_dp(A_data, x_data, y_data, d, p) ==
    linalg_solve(A_data[0][p],
        MSub(MZeros(Rows(x_data), Cols(x_data)),
             MSum([k \in 1..d |-> numpy_dot(A_data[k][p], y_data[d - k][p])], 1, d,
                  MZeros(Rows(x_data), Cols(x_data)))))

RECURSIVE _solve_non_UTPM_x_upto(_, _, _)
_solve_non_UTPM_x_upto(A_data, x_data, d) ==
    IF d = 0 THEN (0 :> tensor([p \in Dirs(A_data) |->
                    linalg_solve(A_data[0][p], x_data)], TP(A_data) - 1))
    ELSE LET y_data == _solve_non_UTPM_x_upto(A_data, x_data, d - 1)
         IN  y_data @@ (d :> tensor([p \in Dirs(A_data) |->
                                _solve_non_UTPM_x_dp(A_data, x_data, y_data, d, p)], TP(A_data) - 1))

_solve_non_UTPM_x(A_data, x_data) == _solve_non_UTPM_x_upto(A_data, x_data, TD(A_data) - 1)

\* UTPM.solve: the three dispatches
UTPM_solve(a, x) ==
    IF isUTPM(a) /\ isUTPM(x) THEN UTPM(_solve(a.data, x.data))
    ELSE IF ~isUTPM(a) /\ isUTPM(x) THEN UTPM(_solve_non_UTPM_A(a.data, x.data))
    ELSE IF isUTPM(a) /\ ~isUTPM(x) THEN UTPM(_solve_non_UTPM_x(a.data, x.data))
    ELSE NotImplementedError

\* the module-level solve(A, x)
solve(a, x) ==
    IF isUTPM(x) THEN NotImplementedError
    ELSE IF isUTPM(a) THEN NotImplementedError
    ELSE ndarray(linalg_solve(a.data, x.data))

-----------------------------------------------------------------------------
(* UTPM.qr *)

\* the square root of a rational that is the square of a rational
IsSquare(n) == \E r \in 0..n : r * r = n
ISqrt(n) == CHOOSE r \in 0..n : r * r = n
RIsSquare(q) == q[1] >= 0 /\ IsSquare(q[1]) /\ IsSquare(q[2])
RSqrt(q) == <<ISqrt(q[1]), ISqrt(q[2])>>

MScale(c, a) ==
    array([i \in 1..Rows(a) |-> array([j \in 1..Cols(a) |-> RMul(c, a[i][j])], Cols(a))],
          Rows(a))

\* numpy.linalg.qr: Householder reflections H_1 ... H_K (LAPACK geqrf, orgqr).
\* Squared norm of column k below the diagonal, and of the column from the diagonal on.
TailNorm2(W, k) ==
    RSum([i \in 1..(Rows(W) - k) |-> RMul(W[k + i][k], W[k + i][k])], Rows(W) - k)
ColNorm2(W, k) == RAdd(RMul(W[k][k], W[k][k]), TailNorm2(W, k))

\* LAPACK larfg on column k: beta = -sign(alpha) norm, tau = (beta - alpha) / beta,
\* v = (0, ..., 0, 1, x / (alpha - beta)); tau = 0 when x = 0
larfg(W, k) ==
    IF TailNorm2(W, k) = R(0)
    THEN [tau |-> R(0), v |-> array([i \in 1..Rows(W) |-> IF i = k THEN R(1) ELSE R(0)], Rows(W))]
    ELSE LET alpha == W[k][k]
             nrm == RSqrt(ColNorm2(W, k))
             beta == IF alpha[1] >= 0 THEN RNeg(nrm) ELSE nrm
         IN  [tau |-> RDiv(RSub(beta, alpha), beta),
              v |-> array([i \in 1..Rows(W) |->
                              IF i < k THEN R(0)
                              ELSE IF i = k THEN R(1)
                              ELSE RDiv(W[i][k], RSub(alpha, beta))], Rows(W))]

\* H_k = I - tau v v^T
Reflector(W, k) ==
    CHOOSE H \in {IF h.tau = R(0) THEN array(eye(Len(h.v)), Len(h.v))
                  ELSE array([i \in 1..Len(h.v) |-> array([j \in 1..Len(h.v) |->
                           RSub(IF i = j THEN R(1) ELSE R(0),
                                RMul(h.tau, RMul(h.v[i], h.v[j])))],
                           Len(h.v))], Len(h.v)) :
                  h \in {larfg(W, k)}} : TRUE

\* geqrf and orgqr: W becomes H_K ... H_1 a and Qf becomes H_1 ... H_K
RECURSIVE Householder(_, _, _, _)
Householder(W, Qf, k, K) ==
    IF k > K THEN [Q |-> Qf, R |-> W]
    ELSE CHOOSE f \in {Householder(st[1], st[2], k + 1, K) :
                        st \in {<<numpy_dot(H, W), numpy_dot(Qf, H)>> :
                                 H \in {Reflector(W, k)}}} : TRUE

\* every norm the factorization takes is rational
RECURSIVE ExactQR(_, _, _)
ExactQR(W, k, K) ==
    IF k > K THEN TRUE
    ELSE IF ~RIsSquare(ColNorm2(W, k)) THEN FALSE
    ELSE ExactQR(numpy_dot(Reflector(W, k), W), k + 1, K)

Min(a, b) == IF a < b THEN a ELSE b

\* (q, r) = numpy.linalg.qr(a): q is M x K, r is K x N, K = min(M, N)
linalg_qr(a) ==
    LET K == Min(Rows(a), Cols(a))
    IN  CHOOSE qr \in
          {[Q |-> array([i \in 1..Rows(a) |-> array([j \in 1..K |-> f.Q[i][j]], K)], Rows(a)),
            R |-> array([i \in 1..K |-> f.R[i]], K)] :
           f \in {Householder(a, array(eye(Rows(a)), Rows(a)), 1, K)}} : TRUE

\* _qr, line 511: PL[r, c] = (r > c) as a float
PL(K, N) == [r \in 1..K |-> [c \in 1..N |-> IF r > c THEN R(1) ELSE R(0)]]

\* _qr, lines 529-542 (STEP 1, STEP 2): H = A_data[D] - dF and S = -0.5 * dG
_qr_dF(Q_data, R_data, D, p) ==
    MSum([d \in 1..(D - 1) |-> numpy_dot(Q_data[d][p], R_data[D - d][p])], 1, D - 1,
         MZeros(Rows(Q_data[0][p]), Cols(R_data[0][p])))
_qr_dG(Q_data, D, p) ==
    MNeg(MSum([d \in 1..(D - 1) |->
                  numpy_dot(numpy_transpose(Q_data[d][p]), Q_data[D - d][p])], 1, D - 1,
              MZeros(Cols(Q_data[0][p]), Cols(Q_data[0][p]))))
_qr_H_without_dF(A_data, Q_data, R_data, D, p) == A_data[D][p]
_qr_H(A_data, Q_data, R_data, D, p) == MSub(A_data[D][p], _qr_dF(Q_data, R_data, D, p))
_qr_S(Q_data, D, p) == MScale(<<-1, 2>>, _qr_dG(Q_data, D, p))

\* _qr, lines 544-557 (STEP 3 to STEP 6): the coefficients Q_data[D, p], R_data[D, p]
\* for D >= 1 from the coefficients below D
_qr_Dp(A_data, Q_data, R_data, D, p) ==
    LET N == Cols(A_data[0][p])
        K == Min(Rows(A_data[0][p]), N)
        Q0T == numpy_transpose(Q_data[0][p])
        Rinv == linalg_inv(R_data[0][p])
        H == _qr_H(A_data, Q_data, R_data, D, p)
        S == _qr_S(Q_data, D, p)
        X1 == MMul(PL(K, N), MSub(numpy_dot(numpy_dot(Q0T, H), Rinv), S))
        X2 == MSub(X1, numpy_transpose(X1))
        K4 == MAdd(S, X2)
        R1 == MSub(numpy_dot(Q0T, H), numpy_dot(K4, R_data[0][p]))
        R2 == MSub(R1, MMul(PL(K, N), R1))
        steps == <<H, S, X1, X2, K4, R1, R2>>
    IN  [R |-> steps[7],
         Q |-> numpy_dot(MSub(steps[1], numpy_dot(Q_data[0][p], steps[7])), Rinv)]

\* _qr, lines 520-521 (INIT): the base point of every direction
_qr_INIT(A_data) ==
    CHOOSE out \in
      {[Q |-> (0 :> tensor([p \in Dirs(A_data) |-> qr0[p].Q], TP(A_data) - 1)),
        R |-> (0 :> tensor([p \in Dirs(A_data) |-> qr0[p].R], TP(A_data) - 1))] :
       qr0 \in {tensor([p \in Dirs(A_data) |-> linalg_qr(A_data[0][p])], TP(A_data) - 1)}} : TRUE

\* _qr, lines 526-557 (ITERATE): the orders D, ..., DT - 1 on top of the output arrays out
RECURSIVE _qr_ITERATE(_, _, _)
_qr_ITERATE(A_data, out, D) ==
    IF D > TD(A_data) - 1 THEN out
    ELSE CHOOSE r \in
           {_qr_ITERATE(A_data, next, D + 1) :
            next \in
              {[Q |-> out.Q @@ (D :> tensor([p \in Dirs(A_data) |-> qrD[p].Q], TP(A_data) - 1)),
                R |-> out.R @@ (D :> tensor([p \in Dirs(A_data) |-> qrD[p].R], TP(A_data) - 1))] :
               qrD \in {tensor([p \in Dirs(A_data) |-> _qr_Dp(A_data, out.Q, out.R, D, p)],
                               TP(A_data) - 1)}}} : TRUE

LinAlgError == [cls |-> "LinAlgError"]

\* UTPM.qr, lines 1171-1186, with _qr, lines 486-557, on the output arrays it allocates;
\* numpy.linalg.inv(R_data[0,p]), line 524, raises LinAlgError on a singular R_data[0,p]
UTPM_qr(a) ==
    IF ~(Rows(a.data[0][0]) >= Cols(a.data[0][0])) THEN NotImplementedError
    ELSE CHOOSE r \in
           {IF \E p \in Dirs(a.data) : ~Invertible(out0.R[0][p]) THEN LinAlgError
            ELSE LET out == _qr_ITERATE(a.data, out0, 1)
                 IN  [cls |-> "tuple", Q |-> UTPM(out.Q), R |-> UTPM(out.R)] :
            out0 \in {_qr_INIT(a.data)}} : TRUE

-----------------------------------------------------------------------------
(* Inputs of the Taylor kernels: coefficient tensors drawn from pools of     *)
(* small integer matrices.  Order 0 comes from a pool of base points, the    *)
(* higher orders from a pool of directions; direction p and order d step     *)
(* cyclically through the pools from a chosen start.                         *)

PoolA0 == << IM(<< <<2, 0>>, <<0, 3>> >>), IM(<< <<1, 1>>, <<1, 2>> >>),
             IM(<< <<2, -1>>, <<1, 1>> >>), IM(<< <<1, 2>>, <<0, 1>> >>) >>
PoolAhi == << IM(<< <<1, 0>>, <<0, 1>> >>), IM(<< <<0, 1>>, <<2, -1>> >>),
              IM(<< <<0, 0>>, <<0, 0>> >>) >>
PoolX0(K) ==
    IF K = 1 THEN << IM(<< <<1>>, <<2>> >>), IM(<< <<2>>, <<-1>> >>), IM(<< <<0>>, <<1>> >>) >>
    ELSE << IM(<< <<1, 2>>, <<2, 1>> >>), IM(<< <<1, -1>>, <<2, 3>> >>),
            IM(<< <<0, 1>>, <<1, 0>> >>) >>
PoolXhi(K) ==
    IF K = 1 THEN << IM(<< <<1>>, <<0>> >>), IM(<< <<1>>, <<1>> >>), IM(<< <<-1>>, <<2>> >>) >>
    ELSE << IM(<< <<1, 0>>, <<0, 0>> >>), IM(<< <<1, 1>>, <<0, 2>> >>),
            IM(<< <<-1, 2>>, <<1, 0>> >>) >>
Widths == {1, 2}

Family(D, P, pool0, poolHi, s, h) ==
    [d \in 0..(D - 1) |-> [p \in 0..(P - 1) |->
        IF d = 0 THEN pool0[((s + p) % Len(pool0)) + 1]
        ELSE poolHi[((h + (d - 1) + p) % Len(poolHi)) + 1]]]

\* inputs of UTPM.qr by shape (M, N): base points whose column norms are rational,
\* among them a rank-deficient one and one with M < N
QRShapes == {<<2, 1>>, <<2, 2>>, <<3, 2>>, <<1, 2>>}
PoolQR0(sh) ==
    IF sh = <<2, 1>> THEN << IM(<< <<3>>, <<4>> >>), IM(<< <<0>>, <<1>> >>) >>
    ELSE IF sh = <<2, 2>>
         THEN << IM(<< <<3, 1>>, <<4, 2>> >>), IM(<< <<0, 1>>, <<1, 1>> >>),
                 IM(<< <<3, 6>>, <<4, 8>> >>) >>
    ELSE IF sh = <<3, 2>>
         THEN << IM(<< <<1, 0>>, <<0, 3>>, <<0, 4>> >>), IM(<< <<0, 1>>, <<1, 0>>, <<0, 0>> >>) >>
    ELSE << IM(<< <<1, 2>> >>) >>
PoolQRhi(sh) ==
    IF sh = <<2, 1>> THEN << IM(<< <<1>>, <<0>> >>), IM(<< <<-1>>, <<2>> >>) >>
    ELSE IF sh = <<2, 2>>
         THEN << IM(<< <<1, 0>>, <<0, 1>> >>), IM(<< <<0, 1>>, <<2, -1>> >>) >>
    ELSE IF sh = <<3, 2>>
         THEN << IM(<< <<1, 0>>, <<0, 1>>, <<1, 1>> >>), IM(<< <<0, 1>>, <<1, 0>>, <<0, -1>> >>) >>
    ELSE << IM(<< <<1, 0>> >>) >>

SameShape(x, y) == Rows(x[0][0]) = Rows(y[0][0]) /\ Cols(x[0][0]) = Cols(y[0][0])
NonZeroBase(y) ==
    \A p \in Dirs(y) : \A i \in 1..Rows(y[0][p]) : \A j \in 1..Cols(y[0][p]) :
        y[0][p][i][j] # R(0)

InitAlg ==
    /\ \E D \in 1..MaxD, P \in 1..MaxP, K \in Widths :
         /\ \E s \in 0..(Len(PoolA0) - 1), h \in 0..(Len(PoolAhi) - 1) :
               A = Family(D, P, PoolA0, PoolAhi, s, h)
         /\ \E s \in 0..(Len(PoolX0(K)) - 1) :
               X = Family(D, P, PoolX0(K), PoolXhi(K), s, s)
    /\ op = "input"
    /\ result = <<>>
    /\ MiIdle
    /\ TapeIdle
    /\ GraphIdle

\* UTPM.inv(A)
Do_UTPM_inv ==
    /\ op = "input"
    /\ op' = "UTPM.inv"
    /\ result' = UTPM_inv(UTPM(A))
    /\ UNCHANGED <<A, X, miVars, tapeVars, graphVars>>

\* Mtc(A).inv()
Do_Mtc_inv ==
    /\ op = "input"
    /\ op' = "Mtc.inv"
    /\ result' = Mtc_inv(A)
    /\ UNCHANGED <<A, X, miVars, tapeVars, graphVars>>

\* Mtc(x).dot(Mtc(X)) with x = A or x = X.T
Do_Mtc_dot ==
    /\ op = "input"
    /\ \E x \in {A, Mtc_transpose(X)} :
         result' = [x |-> x, y |-> X, z |-> Mtc_dot(x, X)]
    /\ op' = "Mtc.dot"
    /\ UNCHANGED <<A, X, miVars, tapeVars, graphVars>>

\* UTPM.dot(x, X) with x = A or x = X.T
Do_UTPM_dot ==
    /\ op = "input"
    /\ \E x \in {A, UTPM_transpose(UTPM(X)).data} :
         result' = [x |-> x, y |-> X, z |-> UTPM_dot(UTPM(x), UTPM(X)).data]
    /\ op' = "UTPM.dot"
    /\ UNCHANGED <<A, X, miVars, tapeVars, graphVars>>

\* q = Mtc(x) / Mtc(y), then q * Mtc(y)
Do_Mtc_div ==
    /\ op = "input"
    /\ \E xy \in {<<A, X>>, <<X, A>>} :
         /\ SameShape(xy[1], xy[2])
         /\ NonZeroBase(xy[2])
         /\ LET q == Mtc_div(xy[1], xy[2])
            IN  result' = [x |-> xy[1], y |-> xy[2], q |-> q, back |-> Mtc_mul(q, xy[2])]
    /\ op' = "Mtc.div"
    /\ UNCHANGED <<A, X, miVars, tapeVars, graphVars>>

\* q = UTPM(x) / UTPM(y), then q * UTPM(y)
Do_UTPM_div ==
    /\ op = "input"
    /\ \E xy \in {<<A, X>>, <<X, A>>} :
         /\ SameShape(xy[1], xy[2])
         /\ NonZeroBase(xy[2])
         /\ LET q == UTPM_div(UTPM(xy[1]), UTPM(xy[2]))
            IN  result' = [x |-> xy[1], y |-> xy[2], q |-> q.data,
                           back |-> UTPM_mul(q, UTPM(xy[2])).data]
    /\ op' = "UTPM.div"
    /\ UNCHANGED <<A, X, miVars, tapeVars, graphVars>>

\* UTPM.solve(a, x) in its three dispatches: (UTPM, UTPM), (plain, UTPM), (UTPM, plain)
Do_UTPM_solve ==
    /\ op = "input"
    /\ \E kind \in {"UU", "PU", "UP"} :
         LET a == IF kind = "PU" THEN ndarray(A[0][0]) ELSE UTPM(A)
             x == IF kind = "UP" THEN ndarray(X[0][0]) ELSE UTPM(X)
         IN  result' = [kind |-> kind, a |-> a, x |-> x, y |-> UTPM_solve(a, x)]
    /\ op' = "UTPM.solve"
    /\ UNCHANGED <<A, X, miVars, tapeVars, graphVars>>

\* x *= y on UTPM objects of equal shape: y another object, or y the object x itself
Do_UTPM_imul ==
    /\ op = "input"
    /\ \/ \E xy \in {<<A, X>>, <<X, A>>} :
            /\ SameShape(xy[1], xy[2])
            /\ result' = [alias |-> FALSE, raised |-> "none", x_old |-> xy[1], y_old |-> xy[2],
                           x |-> UTPM_imul(UTPM(xy[1]), UTPM(xy[2]), FALSE).data,
                           y |-> xy[2]]
       \/ \E x \in {A, X} :
            \E r \in {UTPM_imul(UTPM(x), UTPM(x), TRUE).data} :
               result' = [alias |-> TRUE, raised |-> "none", x_old |-> x, y_old |-> x,
                          x |-> r, y |-> r]
    /\ op' = "UTPM.imul"
    /\ UNCHANGED <<A, X, miVars, tapeVars, graphVars>>

\* solve(a, x), the module-level function, on every mix of UTPM and plain operands
Do_solve ==
    /\ op = "input"
    /\ \E kind \in {"UU", "PU", "UP", "PP"} :
         LET a == IF kind \in {"PU", "PP"} THEN ndarray(A[0][0]) ELSE UTPM(A)
             x == IF kind \in {"UP", "PP"} THEN ndarray(X[0][0]) ELSE UTPM(X)
         IN  result' = [kind |-> kind, a |-> a, x |-> x, y |-> solve(a, x)]
    /\ op' = "solve"
    /\ UNCHANGED <<A, X, miVars, tapeVars, graphVars>>

NextAlg ==
    \/ Do_UTPM_inv
    \/ Do_Mtc_inv
    \/ Do_Mtc_dot
    \/ Do_UTPM_dot
    \/ Do_Mtc_div
    \/ Do_UTPM_div
    \/ Do_UTPM_solve
    \/ Do_solve
    \/ Do_UTPM_imul

SpecAlg == InitAlg /\ [][NextAlg]_vars

\* the inputs of UTPM.qr: a family of M x N coefficients for every shape
InitQR ==
    /\ \E D \in 1..MaxD, P \in 1..MaxP, sh \in QRShapes :
         \E s \in 0..(Len(PoolQR0(sh)) - 1), h \in 0..(Len(PoolQRhi(sh)) - 1) :
            /\ A = Family(D, P, PoolQR0(sh), PoolQRhi(sh), s, h)
            /\ \A p \in 0..(P - 1) : ExactQR(A[0][p], 1, Min(sh[1], sh[2]))
    /\ X = <<>>
    /\ op = "input"
    /\ result = <<>>
    /\ MiIdle
    /\ TapeIdle
    /\ GraphIdle

\* (Q, R) = UTPM.qr(UTPM(A))
Do_UTPM_qr ==
    /\ op = "input"
    /\ op' = "UTPM.qr"
    /\ result' = UTPM_qr(UTPM(A))
    /\ UNCHANGED <<A, X, miVars, tapeVars, graphVars>>

NextQR == Do_UTPM_qr

SpecQR == InitQR /\ [][NextQR]_vars

-----------------------------------------------------------------------------
(* Claims about the Taylor kernels *)

\* coefficient d of the truncated product x . y in direction p, term by term
RECURSIVE TruncProdFrom(_, _, _, _, _)
TruncProdFrom(x, y, d, p, c) ==
    IF c = d THEN numpy_dot(x[c][p], y[0][p])
    ELSE MAdd(numpy_dot(x[c][p], y[d - c][p]), TruncProdFrom(x, y, d, p, c + 1))
TruncProd(x, y, d, p) == TruncProdFrom(x, y, d, p, 0)

\* b is the Taylor inverse of a: base point, recurrence, and a . b = I + 0 t + ...
IsTaylorInverse(a, b) ==
    /\ DOMAIN b = DOMAIN a
    /\ \A p \in Dirs(a) :
          /\ numpy_dot(a[0][p], b[0][p]) = eye(Rows(a[0][p]))
          /\ numpy_dot(b[0][p], a[0][p]) = eye(Rows(a[0][p]))
          /\ \A d \in Orders(a) \ {0} :
                /\ b[d][p] = MNeg(numpy_dot(b[0][p], MSub(TruncProd(a, b, d, p),
                                                          numpy_dot(a[0][p], b[d][p]))))
                /\ TruncProd(a, b, d, p) = MZeros(Rows(a[0][p]), Rows(a[0][p]))

S1_A == (0 :> (0 :> IM(<< <<2, 0>>, <<0, 3>> >>))) @@ (1 :> (0 :> IM(<< <<1, 0>>, <<0, 1>> >>)))
S1_B == (0 :> (0 :> << <<<<1, 2>>, <<0, 1>>>>, <<<<0, 1>>, <<1, 3>>>> >>))
        @@ (1 :> (0 :> << <<<<-1, 4>>, <<0, 1>>>>, <<<<0, 1>>, <<-1, 9>>>> >>))

\* C3: B = UTPM.inv(A) has B[0,p] = A[0,p]^-1 and B[d,p] = -B[0,p] sum_{c=1..d} A[c,p] B[d-c,p],
\* so the truncated product A.B is I at order 0 and 0 above, and inv(inv(A)) == A;
\* A[0] = diag(2,3), A[1] = I gives B[0] = diag(1/2,1/3), B[1] = -diag(1/4,1/9).
C3_UTPM_inv ==
    op = "UTPM.inv" =>
        /\ IsTaylorInverse(A, result.data)
        /\ UTPM_inv(result).data = A
        /\ (A = S1_A => result.data = S1_B)

C3_Witness == op = "UTPM.inv" /\ A = S1_A /\ result.data[1][0][2][2] = <<-1, 9>>

\* C4: Mtc.inv computes the same Taylor inverse: B[0,p] = A[0,p]^-1 and
\* B[d,p] = -B[0,p] sum_{c=1..d} A[c,p] B[d-c,p], so A . Mtc.inv(A) = I + 0 t + ...
C4_Mtc_inv ==
    op = "Mtc.inv" => IsTaylorInverse(A, result)

\* C5: dot(x,y) (Mtc.dot and UTPM.dot) is the truncated Cauchy product per direction:
\* z[d,p] = sum_{c=0..d} x[c,p] . y[d-c,p]; x[0] = [1;2], x[1] = [1;0] gives
\* x^T . x = 5 + 2 t.
C5_dot ==
    op \in {"Mtc.dot", "UTPM.dot"} =>
        /\ DOMAIN result.z = DOMAIN result.x
        /\ \A d \in Orders(result.x) : \A p \in Dirs(result.x) :
              result.z[d][p] = TruncProd(result.x, result.y, d, p)
        /\ ( /\ TD(X) = 2 /\ TP(X) = 1
             /\ X[0][0] = IM(<< <<1>>, <<2>> >>) /\ X[1][0] = IM(<< <<1>>, <<0>> >>)
             /\ result.x = Mtc_transpose(X) )
           => (result.z[0][0] = IM(<< <<5>> >>) /\ result.z[1][0] = IM(<< <<2>> >>))

C5_Witness ==
    /\ op = "UTPM.dot" /\ TD(X) = 2 /\ TP(X) = 1
    /\ X[0][0] = IM(<< <<1>>, <<2>> >>) /\ X[1][0] = IM(<< <<1>>, <<0>> >>)
    /\ result.x = Mtc_transpose(X) /\ result.z[1][0] = IM(<< <<2>> >>)

\* coefficient d of the elementwise truncated product x * y in direction p
RECURSIVE TruncMulFrom(_, _, _, _, _)
TruncMulFrom(x, y, d, p, c) ==
    IF c = d THEN MMul(x[c][p], y[0][p])
    ELSE MAdd(MMul(x[c][p], y[d - c][p]), TruncMulFrom(x, y, d, p, c + 1))

\* C6: elementwise division follows z[d] = (x[d] - sum_{c<d} z[c]*y[d-c]) / y[0], so
\* (x / y) * y == x at every order (Mtc.__div__/__mul__ and UTPM.__div__/__mul__).
C6_div_mul ==
    op \in {"Mtc.div", "UTPM.div"} =>
        /\ \A d \in Orders(result.x) : \A p \in Dirs(result.x) :
              /\ result.q[d][p] =
                    MDiv(MSub(result.x[d][p],
                              MSub(TruncMulFrom(result.q, result.y, d, p, 0),
                                   MMul(result.q[d][p], result.y[0][p]))),
                         result.y[0][p])
              /\ TruncMulFrom(result.q, result.y, d, p, 0) = result.x[d][p]
        /\ result.back = result.x

C6_Witness ==
    /\ op = "UTPM.div" /\ TD(A) = 3
    /\ result.q[2][0] # MZeros(2, 2) /\ result.q[1][0] # MZeros(2, 2)
    /\ result.back = result.x

\* C7: Y = UTPM.solve(A, X) for UTPM A, X has Y[0,p] = solve(A[0,p], X[0,p]) and
\* Y[d,p] = solve(A[0,p], X[d,p] - sum_{k=1..d} A[k,p] Y[d-k,p]); hence dot(A,Y) == X
\* and solve(A, dot(A,X)) == X.
C7_solve ==
    (op = "UTPM.solve" /\ result.kind = "UU") =>
        /\ \A d \in Orders(A) : \A p \in Dirs(A) :
              /\ numpy_dot(A[0][p], result.y.data[d][p]) =
                    MSub(X[d][p], MSub(TruncProd(A, result.y.data, d, p),
                                       numpy_dot(A[0][p], result.y.data[d][p])))
              /\ TruncProd(A, result.y.data, d, p) = X[d][p]
        /\ UTPM_solve(UTPM(A), UTPM_dot(UTPM(A), UTPM(X))).data = X

C7_Witness ==
    /\ op = "UTPM.solve" /\ result.kind = "UU" /\ TD(A) = 3 /\ TP(A) = 2
    /\ result.y.data[2][1] # MZeros(2, Cols(X[0][0]))
    /\ A[1][1] # MZeros(2, 2)

\* the UTPM whose order 0 is the plain array m in every direction, zero above
Lift(m, D, P) == [d \in 0..(D - 1) |-> [p \in 0..(P - 1) |->
                    IF d = 0 THEN m ELSE MZeros(Rows(m), Cols(m))]]

\* C8: the (plain, UTPM) solve agrees with the (UTPM, UTPM) one on A' = (A, 0, 0, ...):
\* Y[d,p] = solve(A, x[d,p]) for every d < D.
C8_solve_plain_A ==
    (op = "UTPM.solve" /\ result.kind = "PU") =>
        /\ result.y = UTPM_solve(UTPM(Lift(result.a.data, TD(X), TP(X))), result.x)
        /\ \A d \in Orders(X) : \A p \in Dirs(X) :
              result.y.data[d][p] = linalg_solve(result.a.data, X[d][p])

\* C9: the (UTPM, plain) solve equals the (UTPM, UTPM) solve on x' = (x, 0, 0, ...).
C9_solve_plain_x ==
    (op = "UTPM.solve" /\ result.kind = "UP") =>
        result.y = UTPM_solve(result.a, UTPM(Lift(result.x.data, TD(A), TP(A))))

C9_Witness ==
    /\ op = "UTPM.solve" /\ result.kind = "UP" /\ TD(A) = 3
    /\ A[1][0] # MZeros(2, 2)
    /\ result.y.data[1][0] # MZeros(2, Cols(X[0][0]))
    /\ result.y.data[2][0] # MZeros(2, Cols(X[0][0]))

-----------------------------------------------------------------------------
(* class Function and class CGraph (algopy.py): the tape                     *)
(*                                                                           *)
(* A node is [type, args, x, xbar, id]; args holds the ids of the operand    *)
(* nodes (for a 'var' node, the value it was built from).  Node id sits at   *)
(* functionList[id + 1].                                                     *)

Node(id) == functionList[id + 1]

TShape(t) == <<Rows(t[0][0]), Cols(t[0][0])>>

\* Function.xbar_from_x: self.xbar = self.x.copy().set_zero()
xbar_from_x(x) == Mtc_set_zero(x)

\* self.args[k].xbar.set_zero() at the head of every operator branch of Function.eval
ZeroArgs(fl, args) ==
    array([k \in 1..Len(fl) |->
              IF \E a \in 1..Len(args) : args[a] + 1 = k
              THEN [fl[k] EXCEPT !.xbar = Mtc_set_zero(fl[k].xbar)]
              ELSE fl[k]], Len(fl))

\* Mtc.__mul__ and Mtc.__div__ allocate retval with the shape of self and assign the
\* broadcast product to retval.TC[d]: numpy accepts it when every axis of rhs has the
\* length of self's axis or length 1
MulDefined(x, y) ==
    /\ Rows(y[0][0]) = Rows(x[0][0]) \/ Rows(y[0][0]) = 1
    /\ Cols(y[0][0]) = Cols(x[0][0]) \/ Cols(y[0][0]) = 1

\* numpy.dot of the coefficient matrices needs matching inner dimensions
DotDefined(x, y) == Cols(x[0][0]) = Rows(y[0][0])

\* the exception the operator branch of Function.eval raises on the operand values, or
\* "none": ValueError from numpy on shapes that do not broadcast or do not conform,
\* TypeError from Mtc.trace on a non-square matrix, LinAlgError from numpy.linalg.inv
eval_error(fl, type, args) ==
    LET x1 == fl[args[1] + 1].x
        x2 == fl[args[Len(args)] + 1].x
    IN  CASE type \in {"add", "sub"} ->
                IF Broadcastable(x1[0][0], x2[0][0]) THEN "none" ELSE "ValueError"
          [] type \in {"mul", "div"} -> IF MulDefined(x1, x2) THEN "none" ELSE "ValueError"
          [] type = "dot" -> IF DotDefined(x1, x2) THEN "none" ELSE "ValueError"
          [] type = "trace" -> IF Rows(x1[0][0]) = Cols(x1[0][0]) THEN "none" ELSE "TypeError"
          [] type = "inv" ->
                IF \A p \in Dirs(x1) : Invertible(x1[0][p]) THEN "none" ELSE "LinAlgError"
          [] type = "trans" -> "none"

\* a quotient whose divisor has a zero entry at the base point: numpy returns inf or nan
\* without raising, values the exact arithmetic does not represent
eval_nonfinite(fl, type, args) == type = "div" /\ ~NonZeroBase(fl[args[2] + 1].x)

\* the conditions under which the operator branch of Function.eval returns a finite value
CanEval(fl, type, args) ==
    eval_error(fl, type, args) = "none" /\ ~eval_nonfinite(fl, type, args)

\* Function.eval: the value of an operator node from the values of its operands
eval(fl, type, args) ==
    LET x1 == fl[args[1] + 1].x
        x2 == fl[args[Len(args)] + 1].x
    IN  CASE type = "add" -> Mtc_add(x1, x2)
          [] type = "sub" -> Mtc_sub(x1, x2)
          [] type = "mul" -> Mtc_mul(x1, x2)
          [] type = "div" -> Mtc_div(x1, x2)
          [] type = "dot" -> Mtc_dot(x1, x2)
          [] type = "trace" -> Mtc_trace(x1)
          [] type = "inv" -> Mtc_inv(x1)
          [] type = "trans" -> Mtc_transpose(x1)

\* f.xbar += delta / f.xbar -= delta  (Mtc has no in-place operators: a new Mtc is bound)
\* an assignment f.xbar = delta in place of the accumulation
AddBar_assign(fl, id, delta) == [fl EXCEPT ![id + 1].xbar = delta]
AddBar(fl, id, delta) == [fl EXCEPT ![id + 1].xbar = Mtc_add(@, delta)]
SubBar(fl, id, delta) == [fl EXCEPT ![id + 1].xbar = Mtc_sub(@, delta)]

\* one statement  args[..].xbar += delta  (or -= delta) of Function.reval after the
\* statements that gave r: delta is computed first (ValueError from numpy when it is not
\* defined), then Mtc.__add__ / Mtc.__sub__ broadcasts it against the adjoint
Accumulate(r, defined, id, minus, delta) ==
    IF r.raised # "none" THEN r
    ELSE IF ~defined THEN [r EXCEPT !.raised = "ValueError"]
    ELSE IF ~Broadcastable(r.fl[id + 1].xbar[0][0], delta[0][0])
         THEN [r EXCEPT !.raised = "ValueError"]
    ELSE [fl |-> IF minus THEN SubBar(r.fl, id, delta) ELSE AddBar(r.fl, id, delta),
          raised |-> "none", writes |-> Append(r.writes, id)]

\* Function.reval, 'div' branch (lines 449-451)
reval_div(fl, f) ==
    LET x1 == fl[f.args[1] + 1].x
        x2 == fl[f.args[2] + 1].x
    IN  Accumulate(
            Accumulate([fl |-> fl, raised |-> "none", writes |-> <<>>],
                       MulDefined(f.xbar, x2), f.args[1], FALSE, Mtc_div(f.xbar, x2)),
            MulDefined(x1, x2) /\ MulDefined(f.xbar, x1), f.args[2], FALSE,
            Mtc_mul(f.xbar, Mtc_div(x1, Mtc_mul(x2, x2))))

\* Function.reval, 'dot' branch (lines 453-455)
reval_dot(fl, f) ==
    LET x1 == fl[f.args[1] + 1].x
        x2 == fl[f.args[2] + 1].x
    IN  Accumulate(
            Accumulate([fl |-> fl, raised |-> "none", writes |-> <<>>],
                       DotDefined(x2, f.xbar), f.args[1], FALSE,
                       Mtc_transpose(Mtc_dot(x2, f.xbar))),
            DotDefined(f.xbar, x1), f.args[2], FALSE, Mtc_transpose(Mtc_dot(f.xbar, x1)))

\* Function.reval, 'trace' branch (lines 457-463): tmp[d,p] = xbar[d,p,0,0] * eye(N),
\* tmp of the shape (N,M) of the operand's value
reval_trace(fl, f) ==
    LET x1 == fl[f.args[1] + 1].x
        tmp == Tensor(TD(x1), TP(x1), LAMBDA d, p :
                  [i \in 1..Rows(x1[0][0]) |-> [j \in 1..Rows(x1[0][0]) |->
                      RMul(f.xbar[d][p][1][1], eye(Rows(x1[0][0]))[i][j])]])
    IN  Accumulate([fl |-> fl, raised |-> "none", writes |-> <<>>],
                   Rows(x1[0][0]) = Cols(x1[0][0]), f.args[1], FALSE, tmp)

\* Function.reval, 'com' branch (lines 473-501): the block sizes are read with
\* args[r,0].shape(), and Function.shape (line 370) reads self.x.X, an attribute no Mtc
\* has, so the branch raises before any adjoint is touched
reval_com(fl, f) == [fl |-> fl, raised |-> "AttributeError", writes |-> <<>>]

\* Function.reval: the local pullback of node f; [fl: the nodes afterwards, raised]
reval(fl, f) ==
    LET x1 == fl[f.args[1] + 1].x
        x2 == fl[f.args[2] + 1].x
        r0 == [fl |-> fl, raised |-> "none", writes |-> <<>>]
    IN  CASE f.type = "var" -> r0
          [] f.type = "com" -> reval_com(fl, f)
          [] f.type = "add" ->
                Accumulate(Accumulate(r0, TRUE, f.args[1], FALSE, f.xbar),
                           TRUE, f.args[2], FALSE, f.xbar)
          [] f.type = "sub" ->
                Accumulate(Accumulate(r0, TRUE, f.args[1], FALSE, f.xbar),
                           TRUE, f.args[2], TRUE, f.xbar)
          [] f.type = "mul" ->
                Accumulate(Accumulate(r0, MulDefined(f.xbar, x2), f.args[1], FALSE,
                                      Mtc_mul(f.xbar, x2)),
                           MulDefined(f.xbar, x1), f.args[2], FALSE, Mtc_mul(f.xbar, x1))
          [] f.type = "div" -> reval_div(fl, f)
          [] f.type = "dot" -> reval_dot(fl, f)
          [] f.type = "trace" -> reval_trace(fl, f)
          [] f.type = "inv" ->
                Accumulate(r0,
                           DotDefined(f.xbar, Mtc_transpose(f.x))
                               /\ Rows(f.x[0][0]) = Rows(f.xbar[0][0]),
                           f.args[1], TRUE,
                           Mtc_dot(Mtc_transpose(f.x), Mtc_dot(f.xbar, Mtc_transpose(f.x))))
          [] f.type = "trans" ->
                Accumulate(r0, TRUE, f.args[1], FALSE, Mtc_transpose(f.xbar))

\* the loop of CGraph.reverse over functionList without [::-1], first node first
RECURSIVE sweep_ascending(_, _)
sweep_ascending(fl, k) ==
    IF k = 0 THEN [fl |-> fl, raised |-> "none", pullbacks |-> <<>>]
    ELSE LET r == reval(fl, fl[Len(fl) - k + 1])
             ran == <<[id |-> fl[Len(fl) - k + 1].id, writes |-> r.writes]>>
         IN  IF r.raised # "none"
             THEN [fl |-> r.fl, raised |-> r.raised, pullbacks |-> ran]
             ELSE LET rest == sweep_ascending(r.fl, k - 1)
                  IN  [rest EXCEPT !.pullbacks = ran \o rest.pullbacks]

\* CGraph.reverse, lines 553-554: for f in self.functionList[::-1]: f.reval(),
\* from position k down to 1, stopping at the first exception; pullbacks lists the
\* reval calls made, in order, each with the ids of the adjoints it assigned
RECURSIVE sweep(_, _)
sweep(fl, k) ==
    IF k = 0 THEN [fl |-> fl, raised |-> "none", pullbacks |-> <<>>]
    ELSE LET r == reval(fl, fl[k])
             ran == <<[id |-> fl[k].id, writes |-> r.writes]>>
         IN  IF r.raised # "none"
             THEN [fl |-> r.fl, raised |-> r.raised, pullbacks |-> ran]
             ELSE LET rest == sweep(r.fl, k - 1)
                  IN  [rest EXCEPT !.pullbacks = ran \o rest.pullbacks]

\* CGraph.reverse, lines 550-551: f.xbar = xbar[nf] for the dependents
RECURSIVE seed(_, _, _, _)
seed(fl, deps, xbar, nf) ==
    IF nf > Len(deps) THEN fl
    ELSE seed([fl EXCEPT ![deps[nf] + 1].xbar = xbar[nf]], deps, xbar, nf + 1)

\* Function.__init__, lines 289-294: evaluate, allocate a zero adjoint, take the next
\* id, register with the active graph
\* a registration that numbers the node after the previous node's id
\* without incrementing it
NewNode_stale_id(fl, type, args, x) ==
    Append(fl, [type |-> type, args |-> args, x |-> x, xbar |-> xbar_from_x(x),
                id |-> IF Len(fl) = 0 THEN 0 ELSE fl[Len(fl)].id])
\* a registration that inserts the node at the head of the function list
NewNode_prepend(fl, type, args, x) ==
    <<[type |-> type, args |-> args, x |-> x, xbar |-> xbar_from_x(x),
       id |-> Len(fl)]>> \o fl
NewNode(fl, type, args, x) ==
    Append(fl, [type |-> type, args |-> args, x |-> x, xbar |-> xbar_from_x(x),
                id |-> Len(fl)])

\* CGraph.forward, lines 538-539: f.args = x[nf] for the independents
RECURSIVE set_args(_, _, _, _)
set_args(fl, indeps, xs, nf) ==
    IF nf > Len(indeps) THEN fl
    ELSE set_args([fl EXCEPT ![indeps[nf] + 1].args = xs[nf]], indeps, xs, nf + 1)

\* CGraph.forward, lines 542-543: for f in self.functionList: f.x = f.eval(), from
\* position k on, stopping at the first exception; a 'var' node returns its args, an
\* operator node zeroes its operands' adjoints and recomputes.  A quotient by a zero
\* entry ends the walk with "nonfinite".
RECURSIVE forward_from(_, _)
forward_from(fl, k) ==
    IF k > Len(fl) THEN [fl |-> fl, raised |-> "none"]
    ELSE IF fl[k].type = "var" THEN forward_from([fl EXCEPT ![k].x = fl[k].args], k + 1)
    ELSE IF eval_error(fl, fl[k].type, fl[k].args) # "none"
         THEN [fl |-> ZeroArgs(fl, fl[k].args),
               raised |-> eval_error(fl, fl[k].type, fl[k].args)]
    ELSE IF eval_nonfinite(fl, fl[k].type, fl[k].args)
         THEN [fl |-> ZeroArgs(fl, fl[k].args), raised |-> "nonfinite"]
    ELSE forward_from([ZeroArgs(fl, fl[k].args) EXCEPT
                           ![k].x = eval(fl, fl[k].type, fl[k].args)], k + 1)

\* a forward run that assigns the new leaf values but re-evaluates no
\* operator node
CGraph_forward_leaves_only(fl, indeps, xs) ==
    [fl |-> [k \in 1..Len(fl) |->
                IF fl[k].type = "var"
                THEN [set_args(fl, indeps, xs, 1)[k] EXCEPT
                          !.x = set_args(fl, indeps, xs, 1)[k].args]
                ELSE fl[k]],
     raised |-> "none"]
\* CGraph.forward(x)
CGraph_forward(fl, indeps, xs) == forward_from(set_args(fl, indeps, xs, 1), 1)

MaxNodes == 3
MaxSweeps == 2

\* Mtc(X) for the session's leaves: shape (D,P,N,M) = (2,1,N,M), coefficients m0 + m1 t
Series(m0, m1) == [d \in 0..1 |-> [p \in {0} |-> IF d = 0 THEN IM(m0) ELSE IM(m1)]]

\* values the session builds its leaves from: a 2x2 series and a 2x1 series
LeafPool ==
    { Series(<< <<1, -1>>, <<1, 1>> >>, << <<1, 0>>, <<0, 0>> >>),
      Series(<< <<1>>, <<2>> >>, << <<1>>, <<0>> >>) }

\* the seed a caller passes to reverse for a dependent of value x: ones in every entry
OnesLike(x) ==
    Tensor(TD(x), TP(x), LAMBDA d, p :
        [i \in 1..Rows(x[0][0]) |-> [j \in 1..Cols(x[0][0]) |-> R(1)]])
Seeds(x) == {OnesLike(x)}

\* the new leaf values xs the session passes to forward: a 2x2 series for one
\* independent, a 2x1 series and the 2x2 series for two
ForwardPool ==
    { << Series(<< <<2, 1>>, <<1, 1>> >>, << <<0, 1>>, <<0, 0>> >>) >>,
      << Series(<< <<2>>, <<1>> >>, << <<0>>, <<1>> >>),
         Series(<< <<2, 1>>, <<1, 1>> >>, << <<0, 1>>, <<0, 0>> >>) >> }

RECURSIVE Tuples(_, _)
Tuples(S, n) ==
    IF n = 0 THEN {<<>>} ELSE {Append(t, v) : t \in Tuples(S, n - 1), v \in S}

Ids == 0..(functionCount - 1)

\* cg = CGraph()
InitTape ==
    /\ functionCount = 0
    /\ functionList = <<>>
    /\ dependentFunctionList = <<>>
    /\ independentFunctionList = <<>>
    /\ raised = "none"
    /\ sweeps = 0
    /\ call = <<>>
    /\ MiIdle
    /\ AlgIdle
    /\ GraphIdle

\* x = Function(Mtc(v))
RecordLeaf ==
    /\ raised = "none"
    /\ sweeps = 0
    /\ dependentFunctionList = <<>>
    /\ functionCount < MaxNodes
    /\ \E v \in LeafPool :
          functionList' = NewNode(functionList, "var", v, v)
    /\ functionCount' = functionCount + 1
    /\ UNCHANGED <<dependentFunctionList, independentFunctionList, raised, sweeps,
                   call, miVars, algVars, graphVars>>

\* the operand lists the session records operators on: the node recorded last is an
\* operand
Operands(n) == {args \in Tuples(Ids, n) : \E a \in 1..n : args[a] = functionCount - 1}

\* z = x1 + x2, x1 - x2, x1 * x2, x1 / x2, x1.dot(x2) on recorded nodes
RecordBinary ==
    /\ raised = "none"
    /\ sweeps = 0
    /\ dependentFunctionList = <<>>
    /\ functionCount < MaxNodes
    /\ \E type \in {"add", "sub", "mul", "div", "dot"}, args \in Operands(2) :
          /\ CanEval(functionList, type, args)
          /\ \E v \in {eval(functionList, type, args)} :
                functionList' = NewNode(ZeroArgs(functionList, args), type, args, v)
    /\ functionCount' = functionCount + 1
    /\ UNCHANGED <<dependentFunctionList, independentFunctionList, raised, sweeps,
                   call, miVars, algVars, graphVars>>

\* z = x.trace(), x.inv(), x.transpose() on a recorded node
RecordUnary ==
    /\ raised = "none"
    /\ sweeps = 0
    /\ dependentFunctionList = <<>>
    /\ functionCount < MaxNodes
    /\ \E type \in {"trace", "inv", "trans"}, args \in Operands(1) :
          /\ CanEval(functionList, type, args)
          /\ \E v \in {eval(functionList, type, args)} :
                functionList' = NewNode(ZeroArgs(functionList, args), type, args, v)
    /\ functionCount' = functionCount + 1
    /\ UNCHANGED <<dependentFunctionList, independentFunctionList, raised, sweeps,
                   call, miVars, algVars, graphVars>>

\* a recording whose operator raises: z = x1 + x2, ..., x.trace(), x.inv() on operand
\* values the operator rejects.  Function.__init__ runs self.eval() (line 290) before it
\* takes an id and registers (lines 292-294), so the exception leaves the graph as it
\* was; the operands' adjoints were zeroed before the operator was applied
RecordFailed ==
    /\ raised = "none"
    /\ sweeps = 0
    /\ dependentFunctionList = <<>>
    /\ \E type \in {"add", "sub", "mul", "div", "dot", "trace", "inv"} :
          \E args \in Operands(IF type \in {"trace", "inv"} THEN 1 ELSE 2) :
             /\ eval_error(functionList, type, args) # "none"
             /\ functionList' = ZeroArgs(functionList, args)
             /\ raised' = eval_error(functionList, type, args)
    /\ UNCHANGED <<functionCount, dependentFunctionList, independentFunctionList, sweeps,
                   call, miVars, algVars, graphVars>>

\* z = x + c, x - c, x * c, x.dot(c) with c not a Function: as_function (lines 299-304)
\* registers a new 'var' leaf holding self.x.copy().set_zero(), then the operator node is
\* constructed on [x, leaf]; when its operator raises, the leaf stays registered.
\* (x / c divides by the zero leaf: numpy inf/nan, outside the exact arithmetic.)
RecordWithConstant ==
    /\ raised = "none"
    /\ sweeps = 0
    /\ dependentFunctionList = <<>>
    /\ functionCount > 0
    /\ functionCount + 1 < MaxNodes
    /\ \E type \in {"add", "sub", "mul", "dot"}, i \in Ids :
          \E fl1 \in {NewNode(functionList, "var", Mtc_set_zero(Node(i).x),
                               Mtc_set_zero(Node(i).x))} :
             IF eval_error(fl1, type, <<i, functionCount>>) # "none"
             THEN /\ functionList' = ZeroArgs(fl1, <<i, functionCount>>)
                  /\ functionCount' = functionCount + 1
                  /\ raised' = eval_error(fl1, type, <<i, functionCount>>)
             ELSE /\ \E v \in {eval(fl1, type, <<i, functionCount>>)} :
                        functionList' = NewNode(ZeroArgs(fl1, <<i, functionCount>>), type,
                                                <<i, functionCount>>, v)
                  /\ functionCount' = functionCount + 2
                  /\ raised' = raised
    /\ UNCHANGED <<dependentFunctionList, independentFunctionList, sweeps, call, miVars, algVars, graphVars>>

\* z = Function([[x, x]]) or Function([[x], [x]]), x the last node: a list argument makes the node a
\* 'com' node (lines 260-262); Function.eval then calls convert (line 391), a name that
\* is defined nowhere, so the constructor raises NameError before the node takes an id
RecordCombine ==
    /\ raised = "none"
    /\ sweeps = 0
    /\ dependentFunctionList = <<>>
    /\ functionCount > 0
    /\ \E grid \in {<<functionCount - 1>>} \X {"row", "column"} :
          raised' = "NameError"
    /\ UNCHANGED <<functionList, functionCount, dependentFunctionList,
                   independentFunctionList, sweeps, call, miVars, algVars, graphVars>>

\* a constructor that takes every function_type it is given
Function_type_any(args_is_list, function_type) ==
    IF function_type = "var" THEN (IF args_is_list THEN "com" ELSE "var")
    ELSE function_type

\* Function.__init__, lines 260-287: self.type from function_type, or the exception of
\* the else branch
Function_type(args_is_list, function_type) ==
    IF function_type = "var" THEN (IF args_is_list THEN "com" ELSE "var")
    ELSE IF function_type \in {"id", "com", "add", "sub", "mul", "div", "dot", "trace",
                               "inv", "trans"}
         THEN function_type
    ELSE "NotImplementedError"

\* Function(v, function_type = ft) called directly with a kind no operator method
\* passes: a kind __init__ rejects (line 287), or 'id', which __init__ takes and
\* Function.eval rejects in its else branch (line 431) without touching an operand;
\* both exceptions leave __init__ before line 292
RecordOtherKind ==
    /\ raised = "none"
    /\ sweeps = 0
    /\ dependentFunctionList = <<>>
    /\ \E ft \in {"const", "neg", "id"} :
          /\ raised' = IF Function_type(FALSE, ft) = "NotImplementedError"
                        THEN "NotImplementedError"
                        ELSE "Exception"
          /\ call' = [name |-> "Function", function_type |-> ft]
    /\ UNCHANGED <<functionList, functionCount, dependentFunctionList,
                   independentFunctionList, sweeps, miVars, algVars, graphVars>>

\* cg.dependentFunctionList = [F], F the node recorded last
SetDependents ==
    /\ raised = "none"
    /\ sweeps = 0
    /\ dependentFunctionList = <<>>
    /\ functionCount > 0
    /\ dependentFunctionList' = <<functionCount - 1>>
    /\ UNCHANGED <<functionList, functionCount, independentFunctionList, raised, sweeps,
                   call, miVars, algVars, graphVars>>

\* cg.independentFunctionList = [x0] or [x1, x0], leaves recorded first, followed by
\* cg.forward(xs) before the first reverse sweep, xs one new value per independent
Forward ==
    /\ raised = "none"
    /\ sweeps = 0
    /\ dependentFunctionList # <<>>
    /\ independentFunctionList = <<>>
    /\ \E indeps \in {<<0>>, <<1, 0>>} :
          /\ \A n \in 1..Len(indeps) :
                indeps[n] < functionCount /\ Node(indeps[n]).type = "var"
          /\ independentFunctionList' = indeps
          /\ \E xs \in {t \in ForwardPool : Len(t) = Len(indeps)} :
                \E r \in {CGraph_forward(functionList, indeps, xs)} :
                   /\ r.raised # "nonfinite"
                   /\ functionList' = r.fl
                   /\ raised' = r.raised
    /\ UNCHANGED <<functionCount, dependentFunctionList, sweeps, call, miVars, algVars, graphVars>>

\* cg.reverse(xbar): without dependents the call prints a message and returns; otherwise
\* it seeds the dependents and runs every node's pullback, last node first
Reverse ==
    /\ raised = "none"
    /\ sweeps < MaxSweeps
    /\ sweeps' = sweeps + 1
    /\ IF Len(dependentFunctionList) = 0
       THEN /\ call' = [name |-> "reverse", pullbacks |-> <<>>]
            /\ UNCHANGED <<functionList, raised>>
       ELSE \E s \in Seeds(Node(dependentFunctionList[1]).x) :
               \E r \in {sweep(seed(functionList, dependentFunctionList, <<s>>, 1),
                                Len(functionList))} :
                  /\ functionList' = r.fl
                  /\ raised' = r.raised
                  /\ call' = [name |-> "reverse", pullbacks |-> r.pullbacks]
    /\ UNCHANGED <<functionCount, dependentFunctionList, independentFunctionList,
                   miVars, algVars, graphVars>>

NextTape ==
    \/ RecordLeaf
    \/ RecordBinary
    \/ RecordUnary
    \/ RecordWithConstant
    \/ RecordFailed
    \/ RecordCombine
    \/ RecordOtherKind
    \/ SetDependents
    \/ Forward
    \/ Reverse

SpecTape == InitTape /\ [][NextTape]_vars

-----------------------------------------------------------------------------
(* A session with several graphs: CGraph.__init__ and Function.__init__ *)

MaxGraphs == 2
MaxGraphNodes == 3

\* in this session a node names its operands by <<position of the graph, id>>

\* CGraph.__init__ without line 531: Function.cgraph stays what it was
CGraph_init_keeps_target(gs, cg) ==
    [graphs |-> Append(gs, [functionCount |-> 0, functionList |-> <<>>]),
     cgraph |-> IF cg = 0 THEN 1 ELSE cg]

\* CGraph.__init__, lines 526-531: an empty graph, made the class-wide Function.cgraph
CGraph_init(gs, cg) ==
    [graphs |-> Append(gs, [functionCount |-> 0, functionList |-> <<>>]),
     cgraph |-> Len(gs) + 1]

\* the nodes args names, in order
ArgNodes(gs, args) ==
    array([a \in 1..Len(args) |-> gs[args[a][1]].functionList[args[a][2] + 1]], Len(args))

\* the ids among args of the nodes living in graph g
ArgIdsIn(args, g) ==
    LET sel == SelectSeq(args, LAMBDA r : r[1] = g)
    IN  array([k \in 1..Len(sel) |-> sel[k][2]], Len(sel))

\* self.args[k].xbar.set_zero() of Function.eval, in whichever graph the operand lives
ZeroArgNodes(gs, args) ==
    array([g \in 1..Len(gs) |->
             [gs[g] EXCEPT !.functionList = ZeroArgs(@, ArgIdsIn(args, g))]], Len(gs))

\* Function.__init__, lines 288-294, for a node whose operator accepts its operands:
\* evaluate, allocate the adjoint, take self.cgraph.functionCount as id, count, append
Function_init(gs, cg, type, args, x) ==
    LET zeroed == ZeroArgNodes(gs, IF type = "var" THEN <<>> ELSE args)
        self == [type |-> type, args |-> args, x |-> x, xbar |-> xbar_from_x(x),
                 id |-> zeroed[cg].functionCount]
    IN  [zeroed EXCEPT ![cg] = [functionCount |-> @.functionCount + 1,
                                functionList |-> Append(@.functionList, self)]]

\* every node recorded so far, as <<position of the graph, id>>
AllNodes(gs) ==
    UNION {{<<g, k - 1>> : k \in 1..Len(gs[g].functionList)} : g \in 1..Len(gs)}

NodeCount(gs) == Cardinality(AllNodes(gs))

\* cg = CGraph(), the first graph of the session
InitGraphs ==
    /\ \E r \in {CGraph_init(<<>>, 0)} : graphs = r.graphs /\ cgraph = r.cgraph
    /\ MiIdle
    /\ AlgIdle
    /\ TapeIdle

\* cg = CGraph() once more
NewCGraph ==
    /\ Len(graphs) < MaxGraphs
    /\ \E r \in {CGraph_init(graphs, cgraph)} : graphs' = r.graphs /\ cgraph' = r.cgraph
    /\ UNCHANGED <<miVars, algVars, tapeVars>>

\* x = Function(Mtc(v))
GraphRecordLeaf ==
    /\ NodeCount(graphs) < MaxGraphNodes
    /\ \E v \in LeafPool : graphs' = Function_init(graphs, cgraph, "var", v, v)
    /\ UNCHANGED <<cgraph, miVars, algVars, tapeVars>>

\* z = x1 + x2, x1 - x2, x1 * x2 on nodes recorded in any graph
GraphRecordBinary ==
    /\ NodeCount(graphs) < MaxGraphNodes
    /\ \E type \in {"add", "sub", "mul"}, args \in Tuples(AllNodes(graphs), 2) :
          /\ CanEval(ArgNodes(graphs, args), type, <<0, 1>>)
          /\ \E v \in {eval(ArgNodes(graphs, args), type, <<0, 1>>)} :
                graphs' = Function_init(graphs, cgraph, type, args, v)
    /\ UNCHANGED <<cgraph, miVars, algVars, tapeVars>>

NextGraphs == NewCGraph \/ GraphRecordLeaf \/ GraphRecordBinary

SpecGraphs == InitGraphs /\ [][NextGraphs]_vars

\* the last recorded node, when it is the only dependent and the quotient of two
\* distinct leaves
DivOfLeaves ==
    /\ functionCount > 0
    /\ dependentFunctionList = <<functionCount - 1>>
    /\ Node(functionCount - 1).type = "div"
    /\ Node(functionCount - 1).args[1] # Node(functionCount - 1).args[2]
    /\ Node(Node(functionCount - 1).args[1]).type = "var"
    /\ Node(Node(functionCount - 1).args[2]).type = "var"

\* C10: for a recorded node z = x1 / x2 the pullback adds zbar / x2 to the adjoint of x1
\* and subtracts zbar * x1 / x2^2 from the adjoint of x2.  Stated after the first
\* reverse sweep of a tape whose last node z is the dependent and divides two distinct
\* leaves: the adjoints of x1 and x2 were zero before the sweep and z is their only user
\* with a non-zero adjoint, so they hold exactly z's contributions.
C10_div_pullback ==
    (DivOfLeaves /\ sweeps = 1 /\ raised = "none") =>
        LET z == Node(functionCount - 1)
            x1 == Node(z.args[1])
            x2 == Node(z.args[2])
        IN  /\ x1.xbar = Mtc_div(z.xbar, x2.x)
            /\ x2.xbar = Mtc_sub(Mtc_set_zero(x2.x),
                                 Mtc_div(Mtc_mul(z.xbar, x1.x), Mtc_mul(x2.x, x2.x)))

\* the last recorded node, when it is the only dependent and the matrix product of two
\* distinct leaves
DotOfLeaves ==
    /\ functionCount > 0
    /\ dependentFunctionList = <<functionCount - 1>>
    /\ Node(functionCount - 1).type = "dot"
    /\ Node(functionCount - 1).args[1] # Node(functionCount - 1).args[2]
    /\ Node(Node(functionCount - 1).args[1]).type = "var"
    /\ Node(Node(functionCount - 1).args[2]).type = "var"

\* C11: for a recorded node z = dot(x1, x2), x1 of shape N x M and x2 of shape M x K, the
\* reverse sweep with seed zbar completes and accumulates x1bar += zbar . x2^T and
\* x2bar += x1^T . zbar.  Stated after the first reverse sweep of a tape whose last node
\* z is the dependent and multiplies two distinct leaves (their adjoints were zero
\* before the sweep); the 2x2 . 2x1 instance of the claim is among the tapes.
C11_dot_pullback ==
    (DotOfLeaves /\ sweeps = 1) =>
        LET z == Node(functionCount - 1)
            x1 == Node(z.args[1])
            x2 == Node(z.args[2])
        IN  /\ raised = "none"
            /\ x1.xbar = Mtc_dot(z.xbar, Mtc_transpose(x2.x))
            /\ x2.xbar = Mtc_dot(Mtc_transpose(x1.x), z.xbar)

\* the sub-block of matrix m with rows r0+1..r1 and columns c0+1..c1
SubBlock(m, r0, r1, c0, c1) ==
    [i \in 1..(r1 - r0) |-> [j \in 1..(c1 - c0) |-> m[r0 + i][c0 + j]]]

\* C12: for a 'combine' node built from a grid of recorded nodes, the reverse pullback
\* adds to the adjoint of each operand the sub-block of the node's adjoint at the
\* operand's row and column offsets.  Stated for a 1 x 2 grid <<x1, x2>> of leaves: the
\* combine node is recorded, and after the first sweep seeded at it x1 holds the left
\* Cols(x1) columns of the seed and x2 the remaining columns.
C12_combine_pullback ==
    /\ raised # "NameError"
    /\ \A k \in 1..Len(functionList) :
          (functionList[k].type = "com" /\ sweeps = 1) =>
              LET z == functionList[k]
                  x1 == Node(z.args[1])
                  x2 == Node(z.args[2])
                  m1 == Cols(x1.x[0][0])
                  m2 == Cols(x2.x[0][0])
                  n1 == Rows(x1.x[0][0])
              IN  /\ raised = "none"
                  /\ \A d \in Orders(z.x) : \A p \in Dirs(z.x) :
                        /\ x1.xbar[d][p] = SubBlock(z.xbar[d][p], 0, n1, 0, m1)
                        /\ x2.xbar[d][p] = SubBlock(z.xbar[d][p], 0, n1, m1, m1 + m2)

\* C13: calling CGraph.reverse when no dependents have been set fails with an error
\* instead of returning normally.  Dependents can only be set before the first sweep, so
\* a state with a sweep counted and no dependents is the state such a call returned in.
C13_reverse_without_dependents ==
    (sweeps >= 1 /\ dependentFunctionList = <<>>) => raised # "none"

\* C14: every reverse sweep starts by zeroing all adjoints except the seeded dependents:
\* a second call of CGraph.reverse with the same seeds, directly after the first, leaves
\* the adjoint of every node as the first sweep left it.
C14_reverse_twice ==
    [][(sweeps = 1 /\ sweeps' = 2 /\ dependentFunctionList # <<>>) =>
          \A k \in 1..Len(functionList) : functionList'[k].xbar = functionList[k].xbar]_vars

\* C15: in every reachable state the number of recorded nodes equals
\* functionCount and the node at list position i has id i, counting the
\* constant leaves created by as_function, and including the states after
\* a failed recording, after forward and after reverse.
C15_ids_are_positions ==
    /\ functionCount = Len(functionList)
    /\ \A i \in 1..Len(functionList) : functionList[i].id = i - 1
\* a tape with a constant leaf of as_function, after a forward run and a
\* reverse sweep
C15_Witness ==
    /\ functionCount = 3
    /\ functionList[2].type = "var"
    /\ functionList[2].x = Mtc_set_zero(functionList[1].x)
    /\ functionList[3].args = <<0, 1>>
    /\ independentFunctionList # <<>>
    /\ functionList[1].x \in {xs[1] : xs \in ForwardPool}
    /\ sweeps = 1
    /\ raised = "none"

\* C16: after any sequence of recordings in one CGraph, every operand of a
\* non-leaf node is a node of functionList at a strictly smaller index than
\* the node itself: the list is a topologically sorted DAG.
C16_operands_earlier ==
    \A k \in 1..Len(functionList) :
        functionList[k].type # "var" =>
            \A a \in 1..Len(functionList[k].args) :
                /\ functionList[k].args[a] + 1 \in 1..(k - 1)
                /\ functionList[functionList[k].args[a] + 1].id = functionList[k].args[a]
\* a leaf, an operator node on it, and an operator node on both
C16_Witness ==
    /\ functionCount = 3
    /\ functionList[1].type = "var"
    /\ functionList[2].type # "var"
    /\ functionList[2].args = <<0>>
    /\ functionList[3].type # "var"
    /\ functionList[3].args = <<0, 1>>

\* numpy.shape(t.TC): (D, P, N, M)
TCShape(t) == <<TD(t), TP(t)>> \o TShape(t)

\* C17: in every state reachable by recording nodes, forward runs with new
\* leaf values and reverse sweeps, every node's adjoint has the same shape
\* (D, P, N, M) as the node's value.
C17_adjoint_shape ==
    \A k \in 1..Len(functionList) :
        TCShape(functionList[k].xbar) = TCShape(functionList[k].x)

\* the new leaf values handed to the forward run, one per independent
ForwardInput(indeps) == CHOOSE t \in ForwardPool : Len(t) = Len(indeps)

\* C18: after CGraph.forward(xs) has returned, the value of independent i
\* is xs[i], every leaf that is not an independent keeps its value, every
\* non-leaf node's value is its operator applied to the current values of
\* its operands, and the node list, the ids and the operand references are
\* unchanged. The step that sets the independents is the forward run.
C18_forward_post ==
    [][(independentFunctionList = <<>> /\ independentFunctionList' # <<>>
           /\ raised' = "none") =>
         /\ functionCount' = functionCount
         /\ Len(functionList') = Len(functionList)
         /\ \A nf \in 1..Len(independentFunctionList') :
               functionList'[independentFunctionList'[nf] + 1].x =
                   ForwardInput(independentFunctionList')[nf]
         /\ \A k \in 1..Len(functionList) :
               /\ functionList'[k].id = functionList[k].id
               /\ functionList'[k].type = functionList[k].type
               /\ functionList[k].type # "var" =>
                     /\ functionList'[k].args = functionList[k].args
                     /\ functionList'[k].x =
                           eval(functionList', functionList[k].type, functionList[k].args)
               /\ (/\ functionList[k].type = "var"
                   /\ \A nf \in 1..Len(independentFunctionList') :
                         independentFunctionList'[nf] # k - 1) =>
                     functionList'[k].x = functionList[k].x]_vars
\* after a forward run on a tape with an independent leaf, a leaf that is
\* not an independent, and an operator node on both
C18_Witness ==
    /\ functionCount = 3
    /\ independentFunctionList = <<0>>
    /\ functionList[1].x = ForwardInput(<<0>>)[1]
    /\ functionList[2].type = "var"
    /\ functionList[3].type # "var"
    /\ functionList[3].args = <<0, 1>>
    /\ functionList[3].x = eval(functionList, functionList[3].type, <<0, 1>>)
    /\ sweeps = 0
    /\ raised = "none"

-----------------------------------------------------------------------------
(* Claims about UTPM.qr *)

\* A[0, p] has full column rank for every p
FullColumnRank(t) ==
    \A p \in Dirs(t) : Invertible(numpy_dot(numpy_transpose(t[0][p]), t[0][p]))
QRPre == op = "UTPM.qr" /\ Rows(A[0][0]) >= Cols(A[0][0]) /\ FullColumnRank(A)

\* C19: for A of shape (D,P,M,N) with M >= N and A[0,p] of full column rank,
\* (Q, R) = UTPM.qr(A) reproduces A at every order: for every d < D and p,
\* sum_{c=0..d} Q[c,p] . R[d-c,p] = A[d,p].
C19_QR_reproduces_A ==
    QRPre =>
        /\ result.cls = "tuple"
        /\ \A d \in Orders(A), p \in Dirs(A) :
              MSum([c \in 0..d |-> numpy_dot(result.Q.data[c][p], result.R.data[d - c][p])],
                   0, d, MZeros(Rows(A[0][p]), Cols(A[0][p]))) = A[d][p]
\* a 3 x 2 input of three orders whose first-order factors are both nonzero
C19_Witness ==
    /\ QRPre
    /\ TD(A) = 3
    /\ Rows(A[0][0]) = 3
    /\ result.cls = "tuple"
    /\ result.Q.data[1][0] # MZeros(3, 2)
    /\ result.R.data[1][0] # MZeros(2, 2)
    /\ result.Q.data[0][0] # array([i \in 1..3 |-> array([j \in 1..2 |-> eye(3)[i][j]], 2)], 3)

\* C20: for A with M >= N and A[0,p] of full column rank, the Q factor of
\* UTPM.qr(A) is orthonormal as a Taylor polynomial: for every p,
\* sum_{c=0..d} Q[c,p]^T . Q[d-c,p] is the identity for d = 0 and the zero
\* matrix for every 1 <= d < D.
C20_Q_orthonormal ==
    (QRPre /\ result.cls = "tuple") =>
        \A d \in Orders(A), p \in Dirs(A) :
            MSum([c \in 0..d |-> numpy_dot(numpy_transpose(result.Q.data[c][p]),
                                           result.Q.data[d - c][p])],
                 0, d, MZeros(Cols(A[0][p]), Cols(A[0][p])))
              = IF d = 0 THEN array(eye(Cols(A[0][p])), Cols(A[0][p]))
                ELSE MZeros(Cols(A[0][p]), Cols(A[0][p]))

-----------------------------------------------------------------------------
(* Claims about gamma and convert_multi_indices_to_pos *)

RECURSIVE RProd(_, _)
RProd(f, n) == IF n = 0 THEN R(1) ELSE RMul(RProd(f, n - 1), f[n])

RECURSIVE RPow(_, _)
RPow(z, e) == IF e = 0 THEN R(1) ELSE RMul(z, RPow(z, e - 1))

\* generalized binomial C(z, k) of a rational z
GenBinom(z, k) ==
    RDiv(RProd([t \in 1..k |-> RSub(z, R(t - 1))], k), R(Factorial(k)))

\* one term of Griewank's sum with true quotients; zero when |k| = 0
GammaTerm(i, j, k) ==
    LET N == Len(i)
        D == SeqSum(j)
    IN  IF SeqSum(k) = 0 THEN R(0)
        ELSE RMul(RMul(R(IF (SeqSum(i) - SeqSum(k)) % 2 = 0 THEN 1 ELSE -1),
                       R(IProd([n \in 1..N |-> Binom(i[n], k[n])], N))),
                  RMul(RProd([n \in 1..N |-> GenBinom(RNorm(D * k[n], SeqSum(k)), j[n])], N),
                       RPow(RNorm(SeqSum(k), D), SeqSum(i))))

\* all k with 0 <= k_n <= i_n
RECURSIVE BelowSet(_, _)
BelowSet(i, n) ==
    IF n = 0 THEN {<<>>}
    ELSE {Append(k, a) : k \in BelowSet(i, n - 1), a \in 0..i[n]}

RECURSIVE RSumSet(_, _, _)
RSumSet(S, i, j) ==
    IF S = {} THEN R(0)
    ELSE LET k == CHOOSE k \in S : TRUE
         IN  RAdd(GammaTerm(i, j, k), RSumSet(S \ {k}, i, j))

GammaExact(i, j) == RSumSet(BelowSet(i, Len(i)), i, j)

\* C21: gamma(i,j) equals the exact rational sum over all k with 0 <= k_n <= i_n
\* of (-1)^{|i-k|} prod C(i_n,k_n) prod C(D k_n/|k|, j_n) (|k|/D)^{|i|}, with
\* true quotients and a zero term for |k| = 0.
C21_gamma_exact ==
    miPc = "gamma" => miG.gamma = GammaExact(miG.i, miG.j)

\* number of entries of the sequence s equal to v
Count(s, v) == Cardinality({t \in 1..Len(s) : s[t] = v})

\* C22: for rows that all sum to D, convert_multi_indices_to_pos returns for every
\* row m exactly D coordinate indices, non-decreasing, each coordinate n occurring
\* I[m,n] times (the row (2,1,0) gives (0,0,1)), and leaves the caller's I as it was.
C22_positions ==
    [][miPc' = "converted" =>
         /\ miT' = miT
         /\ Len(miPos') = Len(miT)
         /\ \A m \in 1..Len(miT) :
               /\ Len(miPos'[m]) = miD
               /\ \A t \in 1..(miD - 1) : miPos'[m][t] <= miPos'[m][t + 1]
               /\ \A n \in 1..miN : Count(miPos'[m], n - 1) = miT[m][n]
               /\ miT[m] = <<2, 1, 0>> => miPos'[m] = <<0, 0, 1>>]_vars

C22_Witness ==
    /\ miPc = "converted" /\ miN = 3 /\ miD = 3
    /\ \E m \in 1..Len(miT) : miT[m] = <<2, 1, 0>> /\ miPos[m] = <<0, 0, 1>>
    /\ \E m \in 1..Len(miT) : miT[m] = <<0, 1, 2>> /\ miPos[m] = <<1, 2, 2>>

-----------------------------------------------------------------------------
(* Claims about the module-level functions and the in-place product of utpm.py *)

\* C23: solve(A, x) takes the UTPM path whenever A or x is a UTPM, returning the
\* Taylor solve of the (UTPM,UTPM), (UTPM,plain) and (plain,UTPM) cases, and the
\* plain dense solve only when both operands are plain.
C23_solve_dispatch ==
    op = "solve" =>
        result.y = IF isUTPM(result.a) \/ isUTPM(result.x)
                   THEN UTPM_solve(result.a, result.x)
                   ELSE ndarray(linalg_solve(result.a.data, result.x.data))

\* C24: x *= x on a UTPM, the right-hand side being the target itself, is rejected
\* as a usage error and x is left unchanged.
C24_imul_alias_rejected ==
    (op = "UTPM.imul" /\ result.alias) =>
        result.raised # "none" /\ result.x = result.x_old

\* C25: for distinct x and y of equal shape, x *= y leaves
\* x[d,p] = sum_{c=0..d} x_old[c,p] * y[d-c,p] for every d < D, the result of
\* Mtc.__mul__ and UTPM.__mul__ on the original x, and y is unchanged.
C25_imul_cauchy ==
    (op = "UTPM.imul" /\ ~result.alias) =>
        /\ \A d \in Orders(result.x_old) : \A p \in Dirs(result.x_old) :
              result.x[d][p] = TruncMulFrom(result.x_old, result.y_old, d, p, 0)
        /\ result.x = Mtc_mul(result.x_old, result.y_old)
        /\ result.x = UTPM_mul(UTPM(result.x_old), UTPM(result.y_old)).data
        /\ result.y = result.y_old
        /\ result.raised = "none"

C25_Witness ==
    /\ op = "UTPM.imul" /\ ~result.alias /\ TD(A) = 3 /\ TP(A) = 2
    /\ result.x[2][1] # result.x_old[2][1]
    /\ result.x[2][1] # MMul(result.x_old[2][1], result.y_old[0][1])
    /\ result.x[1][0] # MMul(result.x_old[1][0], result.y_old[0][0])
    /\ result.x[2][1] = MAdd(MMul(result.x_old[0][1], result.y_old[2][1]),
                             MAdd(MMul(result.x_old[1][1], result.y_old[1][1]),
                                  MMul(result.x_old[2][1], result.y_old[0][1])))

-----------------------------------------------------------------------------
(* Claims about the order and the sums of the reverse sweep, and about registration *)

\* the reverse call of the state has run pullbacks
Swept == call # <<>> /\ call.name = "reverse" /\ Len(call.pullbacks) > 0

\* C26: during CGraph.reverse the pullbacks run strictly in descending insertion
\* order; the pullback of a node runs only after the pullbacks of all nodes that use
\* it as an operand, and no adjoint is written after its node's own pullback has run.
C26_reverse_order ==
    Swept =>
        LET log == call.pullbacks
        IN  /\ \A t \in 1..Len(log) : log[t].id = functionList[Len(functionList) - t + 1].id
            /\ \A t \in 1..(Len(log) - 1) : log[t].id > log[t + 1].id
            /\ \A t \in 1..Len(log) : \A k \in 1..Len(functionList) :
                  (/\ functionList[k].type # "var"
                   /\ \E a \in 1..Len(functionList[k].args) :
                         functionList[k].args[a] = log[t].id) =>
                      \E u \in 1..(t - 1) : log[u].id = functionList[k].id
            /\ \A t \in 1..Len(log) : \A w \in 1..Len(log[t].writes) :
                  \A u \in 1..t : log[u].id # log[t].writes[w]
            /\ raised = "none" => Len(log) = Len(functionList)

C26_Witness ==
    /\ Swept /\ raised = "none" /\ sweeps = 1
    /\ Len(call.pullbacks) = 3
    /\ call.pullbacks[1] = [id |-> 2, writes |-> <<1, 0>>]
    /\ call.pullbacks[2] = [id |-> 1, writes |-> <<0, 0>>]
    /\ call.pullbacks[3] = [id |-> 0, writes |-> <<>>]

\* 2 * t on a coefficient array
Twice(t) == Tensor(TD(t), TP(t), LAMBDA d, p : MScale(R(2), t[d][p]))

\* the graph x, y = x (type) x
IsSelfUse(fl, type) ==
    /\ Len(fl) = 2
    /\ fl[1].type = "var"
    /\ fl[2].type = type /\ fl[2].args = <<0, 0>>

\* the graph x, s = x + x, w = s * x (or x * s)
IsSumTimes(fl) ==
    /\ Len(fl) = 3
    /\ fl[1].type = "var"
    /\ fl[2].type = "add" /\ fl[2].args = <<0, 0>>
    /\ fl[3].type = "mul" /\ fl[3].args \in {<<1, 0>>, <<0, 1>>}

\* C27: in the first reverse sweep after recording or after a forward run, a node
\* used as an operand several times ends with the sum of the contributions of every
\* use: y = x + x gives xbar = 2*ybar, y = x - x gives xbar = 0, and
\* w = (x + x) * x gives xbar = wbar*(x+x) + 2*wbar*x.
C27_adjoint_sums ==
    [][(sweeps = 0 /\ sweeps' = 1 /\ dependentFunctionList # <<>> /\ raised' = "none") =>
         /\ IsSelfUse(functionList, "add") =>
               functionList'[1].xbar = Twice(functionList'[2].xbar)
         /\ IsSelfUse(functionList, "sub") =>
               functionList'[1].xbar = TZerosLike(functionList'[2].xbar)
         /\ IsSumTimes(functionList) =>
               functionList'[1].xbar =
                   Mtc_add(Mtc_mul(functionList'[3].xbar, functionList[2].x),
                           Mtc_mul(Twice(functionList'[3].xbar), functionList[1].x))]_vars

C27_Witness ==
    /\ sweeps = 1 /\ raised = "none" /\ dependentFunctionList = <<2>>
    /\ independentFunctionList = <<0>>
    /\ IsSumTimes(functionList)
    /\ functionList[3].xbar = OnesLike(functionList[3].x)
    /\ functionList[1].xbar # TZerosLike(functionList[1].x)
    /\ functionList[1].xbar =
           Mtc_add(Mtc_mul(functionList[3].xbar, functionList[2].x),
                   Mtc_mul(Twice(functionList[3].xbar), functionList[1].x))

\* C28: constructing a Function with an operator kind outside {var, id, com, add,
\* sub, mul, div, dot, trace, inv, trans}, such as 'const', fails with a
\* not-implemented error before anything is registered: functionCount, functionList
\* and every existing node's value and adjoint are unchanged.
C28_unknown_kind ==
    [][(/\ call' # call
        /\ call'.name = "Function"
        /\ call'.function_type \notin {"var", "id", "com", "add", "sub", "mul", "div",
                                        "dot", "trace", "inv", "trans"}) =>
         /\ raised' = "NotImplementedError"
         /\ functionCount' = functionCount
         /\ functionList' = functionList]_vars

C28_Witness ==
    /\ call # <<>> /\ call.name = "Function" /\ call.function_type = "const"
    /\ raised = "NotImplementedError"
    /\ functionCount = 2 /\ Len(functionList) = 2
    /\ functionList[2].type = "mul"
    /\ functionList[1].xbar = Mtc_set_zero(functionList[1].x)

-----------------------------------------------------------------------------
(* Claims about sessions with several graphs *)

\* what a graph's node list holds, apart from the adjoints: eval zeroes the adjoint of
\* an operand node wherever the node lives
Listed(g) ==
    [k \in 1..Len(g.functionList) |->
        [id |-> g.functionList[k].id, type |-> g.functionList[k].type,
         args |-> g.functionList[k].args, x |-> g.functionList[k].x]]

\* C29: a new CGraph becomes the single recording target: every Function made
\* afterwards, also one whose operands were recorded in an earlier graph, is appended
\* to the newest graph only, with ids restarting at 0, and no earlier graph's
\* functionList or functionCount changes any more.
C29_newest_graph_records ==
    [][/\ \A g \in 1..Len(graphs) :
             g < Len(graphs') =>
                /\ graphs'[g].functionCount = graphs[g].functionCount
                /\ Listed(graphs'[g]) = Listed(graphs[g])
       /\ Len(graphs') = Len(graphs) =>
             LET new == graphs'[Len(graphs)]
                 old == graphs[Len(graphs)]
             IN  /\ new.functionCount = old.functionCount + 1
                 /\ Len(new.functionList) = new.functionCount
                 /\ \A k \in 1..Len(new.functionList) : new.functionList[k].id = k - 1
                 /\ \A k \in 1..Len(old.functionList) : Listed(new)[k] = Listed(old)[k]
       /\ Len(graphs') > Len(graphs) =>
             /\ graphs'[Len(graphs')].functionCount = 0
             /\ graphs'[Len(graphs')].functionList = <<>>]_vars

C29_Witness ==
    /\ Len(graphs) = 2 /\ cgraph = 2
    /\ graphs[1].functionCount = 1 /\ graphs[1].functionList[1].type = "var"
    /\ graphs[2].functionCount = 2
    /\ graphs[2].functionList[1].id = 0
    /\ graphs[2].functionList[1].type = "add"
    /\ graphs[2].functionList[1].args = << <<1, 0>>, <<1, 0>> >>
    /\ graphs[2].functionList[2].id = 1
    /\ graphs[2].functionList[2].type = "mul"
    /\ graphs[2].functionList[2].args = << <<2, 0>>, <<1, 0>> >>

====
